---- MODULE Spec2Model ----
(***************************************************************************)
(* Request-governance pipeline and hybrid authentication of the backend    *)
(* (src/backend): the middleware chain assembled in main.py, the           *)
(* UserContextMiddleware identity resolver, the Redis SessionManager and   *)
(* the /auth routes.  Every request task is a slot of `reqs`; a step of a  *)
(* task is the code between two awaits.                                    *)
(***************************************************************************)
EXTENDS Integers, Sequences, FiniteSets, TLC

VARIABLES
    reqs,             \* request task -> its request, request.state, position and response
    users,            \* table "users": row id = index
    oauth_accounts,   \* table "oauth_accounts"
    sessions,         \* Redis keys session:<id> -> serialized record and expiry
    revocations,      \* Redis revocation list: jti -> expiry
    sid_counter,      \* number of session ids drawn so far (ids are fresh)
    now,              \* wall clock, seconds
    settings,         \* config.settings: the rule lists, which can be reassigned
    size_metrics,     \* RequestSizeLimitMiddleware.metrics
    timeout_metrics,  \* TimeoutMiddleware.metrics
    history           \* what has happened to each session id (not program state)

vars == <<reqs, users, oauth_accounts, sessions, revocations, sid_counter, now, settings,
          size_metrics, timeout_metrics, history>>

----------------------------------------------------------------------------
(* Bounds of the model *)

\* Seconds that pass in one step of the clock.
TickSeconds == 43200
\* The clock stops after this many steps.
MaxTicks == 2
\* Session ids that can be drawn.
MaxSessions == 1
\* Arrivals stop once a rejection counter has reached this value.
MaxRejections == 2

Tasks == {"r1", "r2"}

----------------------------------------------------------------------------
(* Program constants (config.py, session_manager.py, routers/auth.py) *)

MAX_UPLOAD_SIZE == 10000000
REQUEST_TIMEOUT == 10
MAX_JSON_DEPTH == 10
VALIDATION_ENABLED == TRUE
VALIDATION_STRICT_MODE == TRUE
VALIDATION_EXCLUDED_PATHS == {"/docs", "/redoc", "/openapi.json"}
ALLOWED_HOSTS == {"localhost", "127.0.0.1", "host.docker.internal", "testserver"}
SIZE_LIMIT_RULES == <<>>
TIMEOUT_RULES == <<>>
session_ttl == 86400
cookie_max_age == 86400 * 7

\* Comment in middlewares/auth.py: "if expiring in < 5 minutes".
REFRESH_HINT_WINDOW_SECONDS == 300

None == "None"

----------------------------------------------------------------------------
(* Sequences *)

RECURSIVE Reverse(_)
Reverse(s) == IF s = <<>> THEN <<>> ELSE Append(Reverse(Tail(s)), Head(s))

IndexOf(s, x) == IF \E i \in 1..Len(s) : s[i] = x
                 THEN CHOOSE i \in 1..Len(s) : s[i] = x /\ \A j \in 1..(i - 1) : s[j] # x
                 ELSE 0

Contains(s, x) == \E i \in 1..Len(s) : s[i] = x

----------------------------------------------------------------------------
(* The clock *)

StartTime == TickSeconds
MaxNow == StartTime + MaxTicks * TickSeconds

----------------------------------------------------------------------------
(* Bearer tokens.  A token is an opaque string; TokenContent gives what its *)
(* three segments hold: whether it parses, which key signed it, its claims. *)

TokenStrings == {"tok_u1", "tok_u2", "tok_old", "tok_nosub", "tok_badsig", "tok_garbage"}

TokenContent(token) ==
    CASE token = "tok_u1"     -> [wellformed |-> TRUE, key |-> "SECRET_KEY",
                                  claims |-> [sub |-> "u1", exp |-> StartTime + 2 * TickSeconds, jti |-> "j1"]]
      [] token = "tok_u2"     -> [wellformed |-> TRUE, key |-> "SECRET_KEY",
                                  claims |-> [sub |-> "u2", exp |-> StartTime + TickSeconds + REFRESH_HINT_WINDOW_SECONDS - 1, jti |-> "j2"]]
      [] token = "tok_old"    -> [wellformed |-> TRUE, key |-> "SECRET_KEY",
                                  claims |-> [sub |-> "u1", exp |-> 0, jti |-> "j3"]]
      [] token = "tok_nosub"  -> [wellformed |-> TRUE, key |-> "SECRET_KEY",
                                  claims |-> [sub |-> None, exp |-> MaxNow, jti |-> "j4"]]
      [] token = "tok_badsig" -> [wellformed |-> TRUE, key |-> "other key",
                                  claims |-> [sub |-> "u1", exp |-> MaxNow, jti |-> "j5"]]
      [] OTHER                -> [wellformed |-> FALSE, key |-> "",
                                  claims |-> [sub |-> None, exp |-> 0, jti |-> None]]

NoClaims == [sub |-> None, exp |-> 0, jti |-> None]

\* a decode that returns the registered claims sub and exp only
jwt_decode_content_without_jti(c, t) ==
    IF ~c.wellformed \/ c.key # "SECRET_KEY"
    THEN [raised |-> "JWTError", payload |-> NoClaims]
    ELSE IF c.claims.exp < t
    THEN [raised |-> "ExpiredSignatureError", payload |-> NoClaims]
    ELSE [raised |-> None, payload |-> [c.claims EXCEPT !.jti = None]]

\* jose.jwt.decode on what the token string holds
jwt_decode_content(c, t) ==
    IF ~c.wellformed \/ c.key # "SECRET_KEY"
    THEN [raised |-> "JWTError", payload |-> NoClaims]
    ELSE IF c.claims.exp < t
    THEN [raised |-> "ExpiredSignatureError", payload |-> NoClaims]
    ELSE [raised |-> None, payload |-> c.claims]

\* jose.jwt.decode(token, settings.SECRET_KEY, algorithms=[settings.ALGORITHM])
jwt_decode(token, t) == jwt_decode_content(TokenContent(token), t)

----------------------------------------------------------------------------
(* JSON values and strings.  A string is the sequence of its text runs and  *)
(* tags; a JSON value is a string leaf or a list.                           *)

JStr(s) == [t |-> "str", s |-> s, items |-> <<>>]
JList(items) == [t |-> "list", s |-> <<>>, items |-> items]

RECURSIVE Nest(_, _)
Nest(n, leaf) == IF n = 0 THEN leaf ELSE JList(<<Nest(n - 1, leaf)>>)

ALLOWED_TAGS == {"<a>", "<abbr>", "<acronym>", "<b>", "<blockquote>", "<code>", "<em>",
                 "<i>", "<li>", "<ol>", "<strong>", "<ul>", "<p>", "<br>"}
Tags == ALLOWED_TAGS \cup {"<script>", "</script>", "<img>"}

\* bleach.clean(value, tags=ALLOWED_TAGS, attributes=ALLOWED_ATTRIBUTES, strip=True)
RECURSIVE bleach_clean(_)
bleach_clean(s) ==
    IF s = <<>> THEN <<>>
    ELSE IF Head(s) \in Tags /\ Head(s) \notin ALLOWED_TAGS
         THEN bleach_clean(Tail(s))
         ELSE <<Head(s)>> \o bleach_clean(Tail(s))

\* RequestValidationMiddleware._validate_json_depth: TRUE when it raises ValueError
RECURSIVE validate_json_depth_raises(_, _)
validate_json_depth_raises(data, current_depth) ==
    IF current_depth > MAX_JSON_DEPTH THEN TRUE
    ELSE IF data.t = "list"
         THEN \E i \in 1..Len(data.items) :
                  validate_json_depth_raises(data.items[i], current_depth + 1)
         ELSE FALSE

\* RequestValidationMiddleware._sanitize_json_body
RECURSIVE sanitize_json_body(_)
sanitize_json_body(data) ==
    IF data.t = "list"
    THEN JList([i \in 1..Len(data.items) |-> sanitize_json_body(data.items[i])])
    ELSE JStr(bleach_clean(data.s))

\* RequestValidationMiddleware._sanitize_query_items
sanitize_query_items(items) ==
    [i \in 1..Len(items) |-> <<items[i][1], bleach_clean(items[i][2])>>]

----------------------------------------------------------------------------
(* Requests and responses *)

NoResponse == [status |-> 0, body |-> "", email |-> None, set_cookie |-> 0,
               headers |-> {}, origin |-> None]

\* starlette Response(content, status_code): no header set by the caller
Response(content, status_code, origin) ==
    [status |-> status_code, body |-> content, email |-> None, set_cookie |-> 0,
     headers |-> {}, origin |-> origin]

\* response.headers[name] = value
SetHeader(resp, name, value) ==
    [resp EXCEPT !.headers = {h \in @ : h[1] # name} \cup {<<name, value>>}]

HasHeader(resp, name) == \E h \in resp.headers : h[1] = name

NoContentLength == [present |-> FALSE, digits |-> FALSE, value |-> 0]
ContentLength(n) == [present |-> TRUE, digits |-> TRUE, value |-> n]
BadContentLength == [present |-> TRUE, digits |-> FALSE, value |-> 0]

NoBody == [kind |-> "empty", value |-> JStr(<<>>)]
InvalidJsonBody == [kind |-> "invalid", value |-> JStr(<<>>)]
JsonBody(v) == [kind |-> "json", value |-> v]

NoCredentials == [email |-> None, password |-> None]
\* what a provider's verification yields for the credential of a social login
NoIdentity == [provider |-> None, sub |-> None, email |-> None]

\* SocialLoginRequest.token, described by what the provider's checks find in
\* it: the identity it asserts, whether its signature is the provider's,
\* whether it was issued to this application (audience) by the provider
\* (issuer), and whether its key id is in the provider's published key set
Token(provider, sub, email, signature_ok, aud_ok, iss_ok, kid_ok) ==
    [provider |-> provider, sub |-> sub, email |-> email, signature_ok |-> signature_ok,
     aud_ok |-> aud_ok, iss_ok |-> iss_ok, kid_ok |-> kid_ok]
NoToken == Token(None, None, None, FALSE, FALSE, FALSE, FALSE)
\* the rows a call of get_or_create_user_via_social has committed
NoRows == [users |-> 0, oauth_accounts |-> 0]

\* request.state as UserContextMiddleware initialises it (auth.py 27-29)
InitialState == [authenticated |-> FALSE, user_id |-> None,
                 user |-> [username |-> None, id |-> 0, email |-> None],
                 request_id |-> "unknown", token_expiring_soon |-> FALSE]

IdleRequest ==
    [pc |-> "idle", depth |-> 0,
     method |-> "GET", path |-> "/", host |-> "localhost",
     authorization |-> None, access_token |-> None, session_id |-> 0,
     content_length |-> NoContentLength, json_content_type |-> FALSE, body |-> NoBody,
     query |-> <<>>, credentials |-> NoCredentials, social |-> NoIdentity,
     state |-> InitialState,
     entered |-> <<>>, session_lookups |-> 0, revoked_on_arrival |-> FALSE,
     after_logout |-> FALSE, body_read |-> FALSE,
     timed_out |-> FALSE, raised |-> None,
     scheme |-> "http", x_forwarded_proto |-> None,
     token |-> NoToken, found_user |-> 0, known_on_arrival |-> FALSE, rows |-> NoRows,
     resp |-> NoResponse]

\* a request as the server receives it
NewRequest(method, path, host, authorization, access_token, session_id, content_length, json_content_type, body, query, credentials) ==
    [IdleRequest EXCEPT !.pc = "dispatch", !.depth = 1,
                        !.method = method, !.path = path, !.host = host,
                        !.authorization = authorization, !.access_token = access_token,
                        !.session_id = session_id, !.content_length = content_length,
                        !.json_content_type = json_content_type, !.body = body,
                        !.query = query, !.credentials = credentials]

----------------------------------------------------------------------------
(* The middleware chain (main.py 34-71) *)

\* the add_middleware calls of main.py, in program order
add_middleware_calls ==
    <<"TrustedHostMiddleware", "CORSMiddleware", "GZipMiddleware",
      "SecurityHeadersMiddleware", "RequestSizeLimitMiddleware", "TimeoutMiddleware",
      "RequestValidationMiddleware", "UserContextMiddleware", "RequestIDMiddleware",
      "RequestLoggingMiddleware">>

\* the order of program text, as a request would meet the stages were
\* add_middleware to append (first added outermost)
middleware_stack_fifo == add_middleware_calls

\* Starlette: every add_middleware inserts at the front, so the stage added
\* last is outermost and meets the request first (main.py 34: "LIFO for request")
middleware_stack == Reverse(add_middleware_calls)

StageOf(q) == IF q.depth \in 1..Len(middleware_stack) THEN middleware_stack[q.depth] ELSE None

AtStage(r, name) == reqs[r].pc = "dispatch" /\ StageOf(reqs[r]) = name

Enter(q, name) == [q EXCEPT !.entered = Append(@, name)]

\* await call_next(request): the next stage, or the router after the last one
call_next(q) ==
    [q EXCEPT !.depth = @ + 1,
              !.pc = IF q.depth + 1 > Len(middleware_stack) THEN "handler" ELSE "dispatch"]

\* return response: the stage answers itself, nothing further in is invoked
ReturnResponse(q, resp) == [q EXCEPT !.pc = "respond", !.resp = resp]

----------------------------------------------------------------------------
(* Policy resolution *)

\* pydantic_models/validation.py 45-49: no path has a schema
ENDPOINT_SCHEMAS == <<>>

\* SecurityOverrides(path_pattern, x_frame_options, content_security_policy,
\* permissions_policy): a field left unset is None
SecurityOverrides(path_pattern, x_frame_options, content_security_policy, permissions_policy) ==
    [path_pattern |-> path_pattern, x_frame_options |-> x_frame_options,
     content_security_policy |-> content_security_policy,
     permissions_policy |-> permissions_policy]

\* config.py 135-148: the overrides for the documentation pages
docs_csp == "default-src 'self'; script-src 'self' 'unsafe-inline' https://cdn.jsdelivr.net; style-src 'self' 'unsafe-inline' https://cdn.jsdelivr.net; img-src 'self' https://fastapi.tiangolo.com data:;"
SECURITY_OVERRIDES ==
    <<SecurityOverrides("^/docs", None, docs_csp, None),
      SecurityOverrides("^/redoc", None, docs_csp, None),
      SecurityOverrides("^/openapi.json", None, docs_csp, None)>>

\* the settings that can be reassigned, as config.py and
\* pydantic_models/validation.py declare them
DefaultSettings ==
    [SIZE_LIMIT_RULES |-> SIZE_LIMIT_RULES, TIMEOUT_RULES |-> TIMEOUT_RULES,
     ENDPOINT_SCHEMAS |-> ENDPOINT_SCHEMAS,
     SECURITY_OVERRIDES |-> SECURITY_OVERRIDES,
     SECURITY_FORCE_HTTPS |-> FALSE,
     SECURITY_HSTS_INCLUDE_SUBDOMAINS |-> TRUE,
     SECURITY_HSTS_PRELOAD |-> FALSE]

\* re.match(pattern, path), by extension over the patterns and paths in use:
\* the pattern has to match from the first character of the path
RegexMatches == {<<"^/docs", "/docs">>, <<"^/redoc", "/redoc">>,
                 <<"^/openapi.json", "/openapi.json">>,
                 <<"^/upload", "/upload/large">>,
                 <<"^/", "/">>, <<"^/", "/upload/large">>, <<"^/", "/auth/login">>,
                 <<"^/", "/docs">>}
re_match(pattern, path) == <<pattern, path>> \in RegexMatches

\* str.upper() on the HTTP methods in use
upper(m) == CASE m = "get" -> "GET" [] m \in {"post", "Post"} -> "POST" [] OTHER -> m

\* `if rule.method and rule.method.upper() != method.upper(): continue`
method_filter_skips(rule, method) ==
    rule.method \notin {None, ""} /\ upper(rule.method) # upper(method)

\* the loop of get_limit_for_request over the rules that remain
RECURSIVE limit_of_rules(_, _, _)
limit_of_rules(rules, path, method) ==
    IF rules = <<>> THEN MAX_UPLOAD_SIZE
    ELSE IF method_filter_skips(Head(rules), method)
    THEN limit_of_rules(Tail(rules), path, method)
    ELSE IF re_match(Head(rules).path_pattern, path) THEN Head(rules).limit
    ELSE limit_of_rules(Tail(rules), path, method)

\* the loop of get_limit_for_request without the method check of line 85
RECURSIVE limit_of_rules_any_method(_, _)
limit_of_rules_any_method(rules, path) ==
    IF rules = <<>> THEN MAX_UPLOAD_SIZE
    ELSE IF re_match(Head(rules).path_pattern, path) THEN Head(rules).limit
    ELSE limit_of_rules_any_method(Tail(rules), path)

get_limit_ignoring_method(path, method) ==
    limit_of_rules_any_method(settings.SIZE_LIMIT_RULES, path)

\* RequestSizeLimitMiddleware.get_limit_for_request
get_limit_for_request(path, method) ==
    limit_of_rules(settings.SIZE_LIMIT_RULES, path, method)

\* the loop of get_timeout_for_request over the rules that remain
RECURSIVE timeout_of_rules(_, _, _)
timeout_of_rules(rules, path, method) ==
    IF rules = <<>> THEN REQUEST_TIMEOUT
    ELSE IF method_filter_skips(Head(rules), method)
    THEN timeout_of_rules(Tail(rules), path, method)
    ELSE IF re_match(Head(rules).path_pattern, path) THEN Head(rules).timeout
    ELSE timeout_of_rules(Tail(rules), path, method)

\* TimeoutMiddleware.get_timeout_for_request
get_timeout_for_request(path, method) ==
    timeout_of_rules(settings.TIMEOUT_RULES, path, method)

----------------------------------------------------------------------------
(* Session store (security/session_manager.py) over Redis *)

\* a stored value is the text json.dumps wrote, or any other text
json_dumps(data) == [json |-> data]
Malformed(text) == [text |-> text]
\* json.loads raises JSONDecodeError on text that is no JSON document
json_loads_raises(text) == "json" \notin DOMAIN text
json_loads(text) == text.json
\* `not data` on the value redis GET returned
falsy(text) == text = Malformed("")

\* redis GET: a key past its expiry is gone
redis_get(store, key, t) ==
    IF key \in DOMAIN store /\ t < store[key].expires_at
    THEN [found |-> TRUE, value |-> store[key].value]
    ELSE [found |-> FALSE, value |-> json_dumps(<<>>)]

\* redis SETEX key ttl value
redis_setex(store, key, ttl, value, t) ==
    [k \in DOMAIN store \cup {key} |->
        IF k = key THEN [value |-> value, expires_at |-> t + ttl] ELSE store[k]]

\* redis EXPIRE key ttl
redis_expire(store, key, ttl, t) ==
    IF key \in DOMAIN store /\ t < store[key].expires_at
    THEN [store EXCEPT ![key].expires_at = t + ttl]
    ELSE store

\* redis DEL key
redis_delete(store, key) == [k \in DOMAIN store \ {key} |-> store[k]]

\* {"user_id": user_id, "email": email, **(additional_data or {})}
session_record(user_id, email, additional_data) ==
    LET base == [user_id |-> user_id, email |-> email] IN
    [k \in DOMAIN base \cup DOMAIN additional_data |->
        IF k \in DOMAIN additional_data THEN additional_data[k] ELSE base[k]]

\* SessionManager.create_session: the store after it, for the fresh id drawn
create_session(store, session_id, user_id, email, additional_data, t) ==
    redis_setex(store, session_id, session_ttl,
                json_dumps(session_record(user_id, email, additional_data)), t)

\* SessionManager.get_session
get_session(store, session_id, t) ==
    IF session_id = 0 THEN [found |-> FALSE, data |-> <<>>, raised |-> None]
    ELSE LET got == redis_get(store, session_id, t) IN
         IF ~got.found \/ falsy(got.value)
         THEN [found |-> FALSE, data |-> <<>>, raised |-> None]
         ELSE IF json_loads_raises(got.value)
         THEN [found |-> FALSE, data |-> <<>>, raised |-> "JSONDecodeError"]
         ELSE [found |-> TRUE, data |-> json_loads(got.value), raised |-> None]

\* refresh_session writing the key again (SETEX of an empty record)
refresh_session_by_rewriting(store, session_id, t) ==
    IF session_id = 0 THEN store
    ELSE redis_setex(store, session_id, session_ttl, json_dumps(<<>>), t)

\* what refresh_session returns: the answer of EXPIRE, False for no id
refresh_session_returns(store, session_id, t) ==
    session_id # 0 /\ redis_get(store, session_id, t).found

\* SessionManager.refresh_session
refresh_session(store, session_id, t) ==
    IF session_id = 0 THEN store ELSE redis_expire(store, session_id, session_ttl, t)

\* delete_session without its redis DEL
delete_session_without_del(store, session_id) == store

\* SessionManager.delete_session
delete_session(store, session_id) ==
    IF session_id # 0 THEN redis_delete(store, session_id) ELSE store

\* dict.get(key) on a session record
record_user_id(data) == IF "user_id" \in DOMAIN data THEN data["user_id"] ELSE 0
record_email(data) == IF "email" \in DOMAIN data THEN data["email"] ELSE None

----------------------------------------------------------------------------
(* The stages.  Each action is a stage's dispatch up to its next await.     *)

Others == UNCHANGED <<users, oauth_accounts, sessions, revocations, sid_counter, now, settings, history>>

\* RequestLoggingMiddleware.dispatch (request side)
RequestLoggingMiddleware(r) ==
    /\ AtStage(r, "RequestLoggingMiddleware")
    /\ reqs' = [reqs EXCEPT ![r] = call_next(Enter(@, "RequestLoggingMiddleware"))]
    /\ UNCHANGED <<size_metrics, timeout_metrics>> /\ Others

\* RequestIDMiddleware.dispatch (request side): a uuid per request
RequestIDMiddleware(r) ==
    /\ AtStage(r, "RequestIDMiddleware")
    /\ reqs' = [reqs EXCEPT ![r] =
                  call_next([Enter(@, "RequestIDMiddleware") EXCEPT !.state.request_id = r])]
    /\ UNCHANGED <<size_metrics, timeout_metrics>> /\ Others

\* auth.py 31-41: Authorization "Bearer <token>", else the access_token cookie
extract_token(q) ==
    IF q.authorization # None THEN q.authorization
    ELSE IF q.access_token # None THEN q.access_token
    ELSE None

\* `if token:` -- an absent or empty token is not decoded
Presented(token) == token \notin {None, ""}

\* resolve_token with the two 401 handlers replaced by `pass`: a token that
\* fails to decode leaves the request unauthenticated
resolve_token_with_fallback(q0, t) ==
    LET q == [Enter(q0, "UserContextMiddleware") EXCEPT
                 !.state.authenticated = FALSE, !.state.user_id = None,
                 !.state.user = InitialState.user]
        token == extract_token(q)
        decoded == jwt_decode(token, t)
        username == decoded.payload.sub
        by_token == [q EXCEPT !.state.authenticated = TRUE,
                              !.state.user_id = username,
                              !.state.user = [username |-> username, id |-> 0, email |-> None],
                              !.state.token_expiring_soon =
                                  decoded.payload.exp - t < REFRESH_HINT_WINDOW_SECONDS]
        after == IF ~Presented(token) \/ username = None THEN q ELSE by_token
    IN  IF ~after.state.authenticated /\ after.session_id # 0
        THEN [after EXCEPT !.pc = "await_session"]
        ELSE call_next(after)

\* auth.py 26-81, as a function of the request and the clock: the request
\* after the token part, positioned at the session lookup, at call_next or at
\* its 401
resolve_token(q0, t) ==
    LET q == [Enter(q0, "UserContextMiddleware") EXCEPT
                 !.state.authenticated = FALSE, !.state.user_id = None,
                 !.state.user = InitialState.user]
        token == extract_token(q)
        decoded == jwt_decode(token, t)
        username == decoded.payload.sub
        by_token == [q EXCEPT !.state.authenticated = TRUE,
                              !.state.user_id = username,
                              !.state.user = [username |-> username, id |-> 0, email |-> None],
                              !.state.token_expiring_soon =
                                  decoded.payload.exp - t < REFRESH_HINT_WINDOW_SECONDS]
        after == IF ~Presented(token) \/ username = None THEN q ELSE by_token
    IN  IF Presented(token) /\ decoded.raised = "ExpiredSignatureError"
        THEN ReturnResponse(q, Response("Token expired", 401, "UserContextMiddleware"))
        ELSE IF Presented(token) /\ decoded.raised = "JWTError"
        THEN ReturnResponse(q, Response("Invalid token", 401, "UserContextMiddleware"))
        ELSE IF ~after.state.authenticated /\ after.session_id # 0
        THEN [after EXCEPT !.pc = "await_session"]
        ELSE call_next(after)

\* UserContextMiddleware.dispatch up to `await session_manager.get_session`
UserContextMiddleware(r) ==
    /\ AtStage(r, "UserContextMiddleware")
    /\ reqs' = [reqs EXCEPT ![r] = resolve_token(@, now)]
    /\ UNCHANGED <<size_metrics, timeout_metrics>> /\ Others

\* the session part answering 401 when the lookup finds nothing
resolve_session_rejecting(q, store, t) ==
    LET session == get_session(store, q.session_id, t)
        user_id == record_user_id(session.data)
        looked == [q EXCEPT !.session_lookups = @ + 1]
    IN  IF session.found /\ user_id # 0
        THEN call_next([looked EXCEPT
                 !.state.authenticated = TRUE,
                 !.state.user_id = ToString(user_id),
                 !.state.user = [username |-> None, id |-> user_id,
                                 email |-> record_email(session.data)]])
        ELSE ReturnResponse(looked, Response("Session expired", 401, "UserContextMiddleware"))

\* the session part taking the identity from the cookie when the lookup
\* finds nothing
resolve_session_trusting_cookie(q, store, t) ==
    LET session == get_session(store, q.session_id, t)
        user_id == IF session.found THEN record_user_id(session.data) ELSE q.session_id
        looked == [q EXCEPT !.session_lookups = @ + 1]
    IN  IF user_id # 0
        THEN call_next([looked EXCEPT
                 !.state.authenticated = TRUE,
                 !.state.user_id = ToString(user_id),
                 !.state.user = [username |-> None, id |-> user_id,
                                 email |-> record_email(session.data)]])
        ELSE call_next(looked)

\* auth.py 87-107: the answer of the session store, then call_next
resolve_session(q, store, t) ==
    LET session == get_session(store, q.session_id, t)
        user_id == record_user_id(session.data)
        looked == [q EXCEPT !.session_lookups = @ + 1]
    IN  IF session.found /\ user_id # 0
        THEN call_next([looked EXCEPT
                 !.state.authenticated = TRUE,
                 !.state.user_id = ToString(user_id),
                 !.state.user = [username |-> None, id |-> user_id,
                                 email |-> record_email(session.data)]])
        ELSE call_next(looked)

\* the lookup with the refresh_session call of auth.py 102 switched on
lookup_with_sliding_refresh(store, session_id, t) ==
    IF get_session(store, session_id, t).found
    THEN refresh_session(store, session_id, t)
    ELSE store

\* auth.py 87-105: the session store after the lookup; get_session only reads
\* and the refresh_session call of line 102 is commented out
store_after_lookup(store, session_id, t) == store

UserContextSession(r) ==
    /\ reqs[r].pc = "await_session"
    /\ reqs' = [reqs EXCEPT ![r] = resolve_session(@, sessions, now)]
    /\ sessions' = store_after_lookup(sessions, reqs[r].session_id, now)
    /\ UNCHANGED <<users, oauth_accounts, revocations, sid_counter, now, settings, history,
                   size_metrics, timeout_metrics>>

\* len(str) of a string given as its runs and tags
RunLength ==
    [run \in {"ab", "abc", "hello", "too deep", "<script>", "</script>", "<b>"} |->
        CASE run = "ab" -> 2 [] run = "abc" -> 3 [] run = "hello" -> 5
          [] run = "too deep" -> 8 [] run = "<script>" -> 8 [] run = "</script>" -> 9
          [] run = "<b>" -> 3]
RECURSIVE len(_)
len(s) == IF s = <<>> THEN 0 ELSE RunLength[Head(s)] + len(Tail(s))

\* validation.py 52-54: `sanitized_dict[k] = v` for every pair in order, so
\* a repeated key keeps its last value
dict_of(items) ==
    [k \in {items[i][1] : i \in 1..Len(items)} |->
        items[CHOOSE i \in 1..Len(items) :
                 /\ items[i][1] = k
                 /\ \A j \in 1..Len(items) : items[j][1] = k => j <= i][2]]

\* a schema class: its fields, which of them are required, and the
\* min_length of each; the test's QuerySchema is `q: str = Field(..., min_length=3)`
Schema(fields, required, min_length) ==
    [fields |-> fields, required |-> required, min_length |-> min_length]
QuerySchema == Schema({"q"}, {"q"}, [k \in {"q"} |-> 3])

\* schema(**params) of validation.py 139: TRUE when it raises ValidationError.
\* WhitelistSchema (pydantic_models/validation.py 22-28) sets no model_config,
\* so keys the schema does not declare are ignored
schema_raises(schema, params) ==
    \/ \E k \in schema.required : k \notin DOMAIN params
    \/ \E k \in schema.fields \cap DOMAIN params : len(params[k]) < schema.min_length[k]

\* schema(**params) rejecting the keys the schema does not declare
schema_forbidding_extra_raises(schema, params) ==
    \/ schema_raises(schema, params)
    \/ \E k \in DOMAIN params : k \notin schema.fields

\* RequestValidationMiddleware._validate_query_params: TRUE when it raises;
\* without a schema, strict mode only logs (validation.py 140-146)
validate_query_params_raises(path, params) ==
    IF path \in DOMAIN settings.ENDPOINT_SCHEMAS
    THEN schema_raises(settings.ENDPOINT_SCHEMAS[path], params)
    ELSE IF VALIDATION_STRICT_MODE /\ params # <<>> THEN FALSE
    ELSE FALSE

\* validation.py 67/88/110 with the `return` lost: the 400 is built and the
\* request goes on to call_next
validate_request_no_return(q0) ==
    LET q == Enter(q0, "RequestValidationMiddleware") IN
    IF q.method \in {"POST", "PUT", "PATCH"} /\ q.json_content_type
       /\ q.body.kind # "empty"
       /\ (q.body.kind = "invalid" \/ validate_json_depth_raises(q.body.value, 0))
    THEN [call_next(q) EXCEPT !.resp = Response("Invalid request body", 400,
                                                "RequestValidationMiddleware")]
    ELSE call_next(q)

\* RequestValidationMiddleware.dispatch up to call_next or its 400; line 79
\* (`await request.body()`) reads the whole body
validate_request(q0) ==
    LET q == Enter(q0, "RequestValidationMiddleware")
        sanitized_items == sanitize_query_items(q.query)
        with_query == [q EXCEPT !.query = sanitized_items]
        with_body == [with_query EXCEPT !.body_read = TRUE]
    IN  IF ~VALIDATION_ENABLED \/ q.path \in VALIDATION_EXCLUDED_PATHS
        THEN call_next(q)
        ELSE IF validate_query_params_raises(q.path, dict_of(sanitized_items))
        THEN ReturnResponse(q, Response("Invalid request parameters", 400,
                                        "RequestValidationMiddleware"))
        ELSE IF q.method \in {"POST", "PUT", "PATCH"} /\ q.json_content_type
        THEN IF q.body.kind = "empty"
             THEN call_next(with_body)
             ELSE IF q.body.kind = "invalid"
                     \/ validate_json_depth_raises(q.body.value, 0)
             THEN ReturnResponse(with_body, Response("Invalid request body", 400,
                                                     "RequestValidationMiddleware"))
             ELSE call_next([with_body EXCEPT
                                !.body = JsonBody(sanitize_json_body(q.body.value))])
        ELSE call_next(with_query)

RequestValidationMiddleware(r) ==
    /\ AtStage(r, "RequestValidationMiddleware")
    /\ reqs' = [reqs EXCEPT ![r] = validate_request(@)]
    /\ UNCHANGED <<size_metrics, timeout_metrics>> /\ Others

\* TimeoutMiddleware.dispatch: asyncio.wait_for(call_next(request), timeout)
TimeoutMiddleware(r) ==
    /\ AtStage(r, "TimeoutMiddleware")
    /\ reqs' = [reqs EXCEPT ![r] = call_next(Enter(@, "TimeoutMiddleware"))]
    /\ UNCHANGED <<size_metrics, timeout_metrics>> /\ Others

\* TimeoutMiddleware.update_metrics
timeout_update_metrics(m, path, method) ==
    [total_timeouts |-> m.total_timeouts + 1,
     timeouts_per_endpoint |->
        [p \in DOMAIN m.timeouts_per_endpoint \cup {path} |->
            IF p = path
            THEN (IF p \in DOMAIN m.timeouts_per_endpoint THEN m.timeouts_per_endpoint[p] ELSE 0) + 1
            ELSE m.timeouts_per_endpoint[p]],
     timeouts_per_method |->
        [p \in DOMAIN m.timeouts_per_method \cup {method} |->
            IF p = method
            THEN (IF p \in DOMAIN m.timeouts_per_method THEN m.timeouts_per_method[p] ELSE 0) + 1
            ELSE m.timeouts_per_method[p]]]

\* the except-branch of timeout.py 48-56 answering with what the handler had
\* produced so far
on_timeout_error_partial(q) ==
    ReturnResponse([q EXCEPT !.depth = IndexOf(middleware_stack, "TimeoutMiddleware")],
                   Response("Welcome to the FastAPI Project Template", 200, "handler"))

\* timeout.py 48-56, `except asyncio.TimeoutError`: the stage answers 504
on_timeout_error(q) ==
    ReturnResponse([q EXCEPT !.depth = IndexOf(middleware_stack, "TimeoutMiddleware")],
                   SetHeader(Response("Request timed out", 504, "TimeoutMiddleware"),
                             "X-Request-ID", q.state.request_id))

\* timeout.py 46: the deadline of wait_for passes while downstream work is
\* unfinished; wait_for raises TimeoutError into the stage
TimeoutExpires(r) ==
    /\ reqs[r].pc \in {"dispatch", "await_session", "handler"}
    /\ Contains(reqs[r].entered, "TimeoutMiddleware")
    /\ timeout_metrics' = timeout_update_metrics(timeout_metrics, reqs[r].path, reqs[r].method)
    /\ reqs' = [reqs EXCEPT ![r] = on_timeout_error([@ EXCEPT !.timed_out = TRUE])]
    /\ UNCHANGED size_metrics /\ Others

\* what the code below the stages can raise into call_next
Exceptions == {"CancelledError", "TimeoutError", "ValueError"}

\* the except clauses of a stage that end the propagation of an exception:
\* timeout.py 48 answers for TimeoutError; timeout.py 58-85 and logging.py
\* 59-74 raise again, the other stages have no clause around call_next
handles(stage, exc) == stage = "TimeoutMiddleware" /\ exc = "TimeoutError"

\* the depth of the innermost stage at or outside depth i that handles exc, 0 for none
RECURSIVE handling_depth(_, _)
handling_depth(exc, i) ==
    IF i = 0 THEN 0
    ELSE IF handles(middleware_stack[i], exc) THEN i
    ELSE handling_depth(exc, i - 1)

\* core/errors.py generic_exception_handler
generic_exception_handler(exc) == Response("Internal Server Error", 500, "generic_exception_handler")

\* the route handler, or something it awaits, raises; the exception travels
\* outwards through the call_next of every stage
DownstreamRaises(r) ==
    /\ reqs[r].pc = "handler"
    /\ \E exc \in Exceptions :
        LET q == [Enter(reqs[r], "handler") EXCEPT !.raised = exc]
            d == handling_depth(exc, Len(middleware_stack))
        IN  IF d # 0
            THEN /\ timeout_metrics' =
                        timeout_update_metrics(timeout_metrics, q.path, q.method)
                 /\ reqs' = [reqs EXCEPT ![r] = on_timeout_error(q)]
            ELSE /\ timeout_metrics' = timeout_metrics
                 /\ reqs' = [reqs EXCEPT ![r] =
                       [q EXCEPT !.pc = "done", !.depth = 0,
                                 !.resp = IF exc = "CancelledError" THEN NoResponse
                                          ELSE generic_exception_handler(exc)]]
    /\ UNCHANGED size_metrics /\ Others

\* update_metrics writing the per-endpoint counter only
size_update_metrics_per_endpoint_only(m, path) ==
    [rejected_total |-> IF path \in DOMAIN m.rejected_per_endpoint THEN m.rejected_total
                        ELSE m.rejected_total + 1,
     rejected_per_endpoint |->
        [p \in DOMAIN m.rejected_per_endpoint \cup {path} |->
            IF p = path
            THEN (IF p \in DOMAIN m.rejected_per_endpoint THEN m.rejected_per_endpoint[p] ELSE 0) + 1
            ELSE m.rejected_per_endpoint[p]]]

\* RequestSizeLimitMiddleware.update_metrics
size_update_metrics(m, path) ==
    [rejected_total |-> m.rejected_total + 1,
     rejected_per_endpoint |->
        [p \in DOMAIN m.rejected_per_endpoint \cup {path} |->
            IF p = path
            THEN (IF p \in DOMAIN m.rejected_per_endpoint THEN m.rejected_per_endpoint[p] ELSE 0) + 1
            ELSE m.rejected_per_endpoint[p]]]

\* size_limit.py 46-58 failing closed on a header that is not an integer
size_rejects_failing_closed(q) ==
    /\ q.content_length.present
    /\ \/ ~q.content_length.digits
       \/ q.content_length.value > get_limit_for_request(q.path, q.method)

\* size_limit.py 46-58: TRUE when the request is rejected
size_rejects(q) ==
    /\ q.content_length.present
    /\ q.content_length.digits
    /\ q.content_length.value > get_limit_for_request(q.path, q.method)

\* RequestSizeLimitMiddleware.dispatch
RequestSizeLimitMiddleware(r) ==
    /\ AtStage(r, "RequestSizeLimitMiddleware")
    /\ LET q == Enter(reqs[r], "RequestSizeLimitMiddleware")
           limit == get_limit_for_request(q.path, q.method)
       IN  IF size_rejects(q)
           THEN /\ size_metrics' = size_update_metrics(size_metrics, q.path)
                /\ reqs' = [reqs EXCEPT ![r] =
                      ReturnResponse(q,
                          SetHeader(SetHeader(Response("Request entity too large", 413,
                                                       "RequestSizeLimitMiddleware"),
                                              "X-Request-ID", q.state.request_id),
                                    "X-Max-Content-Length", ToString(limit)))]
           ELSE /\ size_metrics' = size_metrics
                /\ reqs' = [reqs EXCEPT ![r] = call_next(q)]
    /\ UNCHANGED timeout_metrics /\ Others

\* SecurityHeadersMiddleware.dispatch (request side): straight to call_next
SecurityHeadersMiddleware(r) ==
    /\ AtStage(r, "SecurityHeadersMiddleware")
    /\ reqs' = [reqs EXCEPT ![r] = call_next(Enter(@, "SecurityHeadersMiddleware"))]
    /\ UNCHANGED <<size_metrics, timeout_metrics>> /\ Others

\* GZipMiddleware (main.py 49)
GZipMiddleware(r) ==
    /\ AtStage(r, "GZipMiddleware")
    /\ reqs' = [reqs EXCEPT ![r] = call_next(Enter(@, "GZipMiddleware"))]
    /\ UNCHANGED <<size_metrics, timeout_metrics>> /\ Others

\* CORSMiddleware (main.py 40-46), simple requests
CORSMiddleware(r) ==
    /\ AtStage(r, "CORSMiddleware")
    /\ reqs' = [reqs EXCEPT ![r] = call_next(Enter(@, "CORSMiddleware"))]
    /\ UNCHANGED <<size_metrics, timeout_metrics>> /\ Others

\* TrustedHostMiddleware (main.py 37): 400 for a host outside ALLOWED_HOSTS
TrustedHostMiddleware(r) ==
    /\ AtStage(r, "TrustedHostMiddleware")
    /\ reqs' = [reqs EXCEPT ![r] =
                  IF @.host \in ALLOWED_HOSTS
                  THEN call_next(Enter(@, "TrustedHostMiddleware"))
                  ELSE ReturnResponse(Enter(@, "TrustedHostMiddleware"),
                                      Response("Invalid host header", 400,
                                               "TrustedHostMiddleware"))]
    /\ UNCHANGED <<size_metrics, timeout_metrics>> /\ Others

----------------------------------------------------------------------------
(* The response on its way out *)

SECURITY_X_FRAME_OPTIONS == "DENY"
SECURITY_CONTENT_SECURITY_POLICY == "default-src 'self'"
SECURITY_PERMISSIONS_POLICY == "geolocation=(), microphone=(), camera=()"

SECURITY_HSTS_MAX_AGE == 31536000

\* an override that sets nothing, for `matched_override = None`
NoOverride == SecurityOverrides(None, None, None, None)

\* the loop of security_headers.py 46-55 without its `break`: a later
\* matching override supplies what an earlier one leaves unset
RECURSIVE matched_override_without_break(_, _)
matched_override_without_break(overrides, path) ==
    IF overrides = <<>> THEN NoOverride
    ELSE LET rest == matched_override_without_break(Tail(overrides), path)
             o == Head(overrides)
         IN  IF ~re_match(o.path_pattern, path) THEN rest
             ELSE SecurityOverrides(o.path_pattern,
                     IF o.x_frame_options = None THEN rest.x_frame_options
                     ELSE o.x_frame_options,
                     IF o.content_security_policy = None THEN rest.content_security_policy
                     ELSE o.content_security_policy,
                     IF o.permissions_policy = None THEN rest.permissions_policy
                     ELSE o.permissions_policy)

\* security_headers.py 46-55: the first override whose pattern matches
RECURSIVE matched_override(_, _)
matched_override(overrides, path) ==
    IF overrides = <<>> THEN NoOverride
    ELSE IF re_match(Head(overrides).path_pattern, path) THEN Head(overrides)
    ELSE matched_override(Tail(overrides), path)

\* `if override.x_frame_options:` and its like: an unset or empty field
\* leaves the default in place
override_or(value, default) == IF value \in {None, ""} THEN default ELSE value

\* security_headers.py 68-71 looking at the URL scheme only
is_https_by_scheme_only(q) == q.scheme = "https"

\* security_headers.py 68-71
is_https(q) == q.scheme = "https" \/ q.x_forwarded_proto = "https"

\* security_headers.py 74-78
hsts_val ==
    "max-age=" \o ToString(SECURITY_HSTS_MAX_AGE)
        \o (IF settings.SECURITY_HSTS_INCLUDE_SUBDOMAINS THEN "; includeSubDomains" ELSE "")
        \o (IF settings.SECURITY_HSTS_PRELOAD THEN "; preload" ELSE "")

\* SecurityHeadersMiddleware.dispatch 36-87
security_headers(q, resp) ==
    LET override == matched_override(settings.SECURITY_OVERRIDES, q.path)
        x_frame == override_or(override.x_frame_options, SECURITY_X_FRAME_OPTIONS)
        csp == override_or(override.content_security_policy, SECURITY_CONTENT_SECURITY_POLICY)
        permissions == override_or(override.permissions_policy, SECURITY_PERMISSIONS_POLICY)
        r1 == SetHeader(resp, "X-Content-Type-Options", "nosniff")
        r2 == SetHeader(r1, "X-Frame-Options", x_frame)
        r3 == SetHeader(r2, "X-XSS-Protection", "1; mode=block")
        r4 == IF settings.SECURITY_FORCE_HTTPS \/ is_https(q)
              THEN SetHeader(r3, "Strict-Transport-Security", hsts_val) ELSE r3
        r5 == SetHeader(r4, "Content-Security-Policy", csp)
        r6 == SetHeader(r5, "Permissions-Policy", permissions)
    IN  SetHeader(r6, "Referrer-Policy", "strict-origin-when-cross-origin")

\* what a stage does to the response its call_next returned
after_call_next(stage, q, resp) ==
    CASE stage = "SecurityHeadersMiddleware" -> security_headers(q, resp)
      [] stage = "UserContextMiddleware" ->
            IF q.state.authenticated /\ q.state.token_expiring_soon
            THEN SetHeader(resp, "X-Token-Expiring-Soon", "true") ELSE resp
      [] stage = "RequestIDMiddleware" -> SetHeader(resp, "X-Request-ID", q.state.request_id)
      [] stage = "RequestLoggingMiddleware" -> SetHeader(resp, "X-Process-Time", "process_time")
      [] OTHER -> resp

\* the response passes the stages outside the one at depth i + 1, innermost first
RECURSIVE unwind(_, _, _)
unwind(q, resp, i) ==
    IF i = 0 THEN resp ELSE unwind(q, after_call_next(middleware_stack[i], q, resp), i - 1)

Respond(r) ==
    /\ reqs[r].pc = "respond"
    /\ LET q == reqs[r] IN
       reqs' = [reqs EXCEPT ![r] =
                  [q EXCEPT !.pc = "done", !.resp = unwind(q, q.resp, q.depth - 1)]]
    /\ UNCHANGED <<size_metrics, timeout_metrics>> /\ Others

\* the client has its response; the task ends
Complete(r) ==
    /\ reqs[r].pc = "done"
    /\ reqs' = [reqs EXCEPT ![r] = IdleRequest]
    /\ UNCHANGED <<size_metrics, timeout_metrics>> /\ Others

----------------------------------------------------------------------------
(* Route handlers *)

\* main.py 119-121
root(r) ==
    /\ reqs[r].pc = "handler"
    /\ reqs[r].path = "/"
    /\ reqs' = [reqs EXCEPT ![r] =
                  ReturnResponse(Enter(@, "handler"),
                                 Response("Welcome to the FastAPI Project Template", 200,
                                          "handler"))]
    /\ UNCHANGED <<size_metrics, timeout_metrics>> /\ Others

----------------------------------------------------------------------------
(* Users (services/auth_service.py, database/models.py) *)

NoHash == <<>>
\* security.auth.get_password_hash / verify_password
get_password_hash(password) == <<"hash-of", password>>
verify_password(password, password_hash) == password_hash = get_password_hash(password)

\* select(User).where(User.email == email): the row id, 0 when there is none
user_by_email(db, email) ==
    IF \E i \in 1..Len(db) : db[i].email = email
    THEN CHOOSE i \in 1..Len(db) : db[i].email = email
    ELSE 0

\* authenticate_user with the check of line 52 inverted
authenticate_user_ignoring_absent_hash(db, email, password) ==
    LET user == user_by_email(db, email) IN
    IF user = 0 THEN 0
    ELSE IF db[user].password_hash = NoHash THEN user
    ELSE IF ~verify_password(password, db[user].password_hash) THEN 0
    ELSE user

\* authenticate_user: the id of the authenticated user, 0 for None
authenticate_user(db, email, password) ==
    LET user == user_by_email(db, email) IN
    IF user = 0 THEN 0
    ELSE IF db[user].password_hash = NoHash THEN 0
    ELSE IF ~verify_password(password, db[user].password_hash) THEN 0
    ELSE user

\* select(OAuthAccount).where(provider == .., sub == ..): index of the row, 0 for none
oauth_account_of(accounts, provider, sub) ==
    IF \E i \in 1..Len(accounts) : accounts[i].provider = provider /\ accounts[i].sub = sub
    THEN CHOOSE i \in 1..Len(accounts) :
             accounts[i].provider = provider /\ accounts[i].sub = sub
    ELSE 0

\* core/errors.py http_exception_handler: JSONResponse {"detail": detail, ...}
HTTPException(status_code, detail) == Response(detail, status_code, "handler")

HandlerOthers == UNCHANGED <<revocations, now, settings, size_metrics, timeout_metrics>>

\* create_user inserting without the unique index on users.email
register_without_unique_index(r) ==
    /\ reqs[r].pc = "handler"
    /\ reqs[r].path = "/auth/register"
    /\ LET q == Enter(reqs[r], "handler") IN
       /\ users' = Append(users, [email |-> q.credentials.email,
                                  password_hash |-> get_password_hash(q.credentials.password)])
       /\ reqs' = [reqs EXCEPT ![r] =
             ReturnResponse(q, [Response("registered", 200, "handler") EXCEPT
                                   !.email = q.credentials.email])]
    /\ UNCHANGED <<oauth_accounts, sessions, sid_counter, history>> /\ HandlerOthers

\* routers/auth.py register -> create_user
register(r) ==
    /\ reqs[r].pc = "handler"
    /\ reqs[r].path = "/auth/register"
    /\ LET q == Enter(reqs[r], "handler")
           taken == user_by_email(users, q.credentials.email) # 0
       IN  /\ users' = IF taken THEN users
                       ELSE Append(users,
                                [email |-> q.credentials.email,
                                 password_hash |-> get_password_hash(q.credentials.password)])
           /\ reqs' = [reqs EXCEPT ![r] =
                         ReturnResponse(q,
                            IF taken THEN HTTPException(400, "Email already registered")
                            ELSE [Response("registered", 200, "handler") EXCEPT
                                     !.email = q.credentials.email])]
    /\ UNCHANGED <<oauth_accounts, sessions, sid_counter, history>> /\ HandlerOthers

\* a session id is drawn and the session written (create_session), and the
\* history of the id begins
SessionCreatedWith(user_id, email, additional_data) ==
    /\ sid_counter' = sid_counter + 1
    /\ sessions' = create_session(sessions, sid_counter + 1, user_id, email,
                                  additional_data, now)
    /\ history' = [history EXCEPT
          !.created_at = Append(@, now),
          !.owner = Append(@, [user_id |-> user_id, email |-> email])]

\* the routers pass no additional data
SessionCreated(user_id, email) == SessionCreatedWith(user_id, email, <<>>)

\* response.set_cookie(key="session_id", value=session_id, ..., max_age=86400 * 7)
LoginResponse(message, email, session_id) ==
    [Response(message, 200, "handler") EXCEPT !.email = email, !.set_cookie = session_id]

\* login_cookie answering an unknown email with its own status
login_cookie_distinguishing(r) ==
    /\ reqs[r].pc = "handler"
    /\ reqs[r].path = "/auth/login"
    /\ LET q == Enter(reqs[r], "handler")
           user == authenticate_user(users, q.credentials.email, q.credentials.password)
       IN  IF user = 0
           THEN /\ reqs' = [reqs EXCEPT ![r] =
                     ReturnResponse(q,
                        IF user_by_email(users, q.credentials.email) = 0
                        THEN HTTPException(404, "User not found")
                        ELSE HTTPException(401, "Incorrect email or password"))]
                /\ UNCHANGED <<sessions, sid_counter, history>>
           ELSE /\ SessionCreated(user, users[user].email)
                /\ reqs' = [reqs EXCEPT ![r] =
                     ReturnResponse(q, LoginResponse("Login successful", users[user].email,
                                                     sid_counter + 1))]
    /\ UNCHANGED <<users, oauth_accounts>> /\ HandlerOthers

\* login_cookie creating the session before it checks the password
login_cookie_session_first(r) ==
    /\ reqs[r].pc = "handler"
    /\ reqs[r].path = "/auth/login"
    /\ LET q == Enter(reqs[r], "handler")
           named == user_by_email(users, q.credentials.email)
           user == authenticate_user(users, q.credentials.email, q.credentials.password)
       IN  /\ IF named = 0 THEN UNCHANGED <<sessions, sid_counter, history>>
              ELSE SessionCreated(named, users[named].email)
           /\ reqs' = [reqs EXCEPT ![r] =
                 IF user = 0
                 THEN ReturnResponse(q, HTTPException(401, "Incorrect email or password"))
                 ELSE ReturnResponse(q, LoginResponse("Login successful", users[user].email,
                                                      sid_counter + 1))]
    /\ UNCHANGED <<users, oauth_accounts>> /\ HandlerOthers

\* routers/auth.py login_cookie
login_cookie(r) ==
    /\ reqs[r].pc = "handler"
    /\ reqs[r].path = "/auth/login"
    /\ LET q == Enter(reqs[r], "handler")
           user == authenticate_user(users, q.credentials.email, q.credentials.password)
       IN  IF user = 0
           THEN /\ reqs' = [reqs EXCEPT ![r] =
                     ReturnResponse(q, HTTPException(401, "Incorrect email or password"))]
                /\ UNCHANGED <<sessions, sid_counter, history>>
           ELSE /\ SessionCreated(user, users[user].email)
                /\ reqs' = [reqs EXCEPT ![r] =
                     ReturnResponse(q, LoginResponse("Login successful", users[user].email,
                                                     sid_counter + 1))]
    /\ UNCHANGED <<users, oauth_accounts>> /\ HandlerOthers

\* routers/auth.py logout
logout(r) ==
    /\ reqs[r].pc = "handler"
    /\ reqs[r].path = "/auth/logout"
    /\ LET q == Enter(reqs[r], "handler") IN
       /\ sessions' = delete_session(sessions, q.session_id)
       /\ history' = [history EXCEPT !.logged_out = @ \cup ({q.session_id} \ {0})]
       /\ reqs' = [reqs EXCEPT ![r] =
             ReturnResponse(q, [Response("Logged out", 200, "handler") EXCEPT
                                   !.set_cookie = -1])]
    /\ UNCHANGED <<users, oauth_accounts, sid_counter>> /\ HandlerOthers

\* routers/auth.py check_auth_status: the response of GET /auth/me
auth_status(q, store, db, t) ==
    LET session == get_session(store, q.session_id, t)
        user_id == record_user_id(session.data)
    IN  IF q.session_id = 0 THEN HTTPException(401, "Not authenticated")
        ELSE IF session.raised # None THEN generic_exception_handler(session.raised)
        ELSE IF ~session.found THEN HTTPException(401, "Session expired")
        ELSE IF user_id \notin 1..Len(db) THEN HTTPException(401, "User not found")
        ELSE [Response("user", 200, "handler") EXCEPT !.email = db[user_id].email]

check_auth_status(r) ==
    /\ reqs[r].pc = "handler"
    /\ reqs[r].path = "/auth/me"
    /\ reqs' = [reqs EXCEPT ![r] =
          ReturnResponse(Enter(@, "handler"), auth_status(reqs[r], sessions, users, now))]
    /\ UNCHANGED <<users, oauth_accounts, sessions, sid_counter, history>> /\ HandlerOthers

\* routers/auth.py login_google -> process_social_login ->
\* get_or_create_user_via_social, for a credential the provider verified
login_google(r) ==
    /\ reqs[r].pc = "handler"
    /\ reqs[r].path = "/auth/google"
    /\ LET q == Enter(reqs[r], "handler")
           id == q.social
           account == oauth_account_of(oauth_accounts, id.provider, id.sub)
           existing == user_by_email(users, id.email)
           link(user_id) == [user_id |-> user_id, provider |-> id.provider,
                             sub |-> id.sub, email |-> id.email]
       IN  IF account # 0
           THEN /\ UNCHANGED <<users, oauth_accounts>>
                /\ SessionCreated(oauth_accounts[account].user_id,
                                  users[oauth_accounts[account].user_id].email)
                /\ reqs' = [reqs EXCEPT ![r] = ReturnResponse(q,
                      LoginResponse("Login with google successful",
                                    users[oauth_accounts[account].user_id].email,
                                    sid_counter + 1))]
           ELSE IF id.email # None /\ existing # 0
           THEN /\ users' = users
                /\ oauth_accounts' = Append(oauth_accounts, link(existing))
                /\ SessionCreated(existing, users[existing].email)
                /\ reqs' = [reqs EXCEPT ![r] = ReturnResponse(q,
                      LoginResponse("Login with google successful", users[existing].email,
                                    sid_counter + 1))]
           ELSE IF id.email = None
           THEN /\ UNCHANGED <<users, oauth_accounts, sessions, sid_counter, history>>
                /\ reqs' = [reqs EXCEPT ![r] = ReturnResponse(q,
                      HTTPException(400, "Email not provided by social provider"))]
           ELSE /\ users' = Append(users, [email |-> id.email, password_hash |-> NoHash])
                /\ oauth_accounts' = Append(oauth_accounts, link(Len(users) + 1))
                /\ SessionCreated(Len(users) + 1, id.email)
                /\ reqs' = [reqs EXCEPT ![r] = ReturnResponse(q,
                      LoginResponse("Login with google successful", id.email,
                                    sid_counter + 1))]
    /\ HandlerOthers

----------------------------------------------------------------------------
(* The environment: the clock, and explicit operations on the stores *)

Unexpired(store, t) == [k \in {k \in DOMAIN store : t < store[k].expires_at} |-> store[k]]

\* time passes; Redis drops the keys whose time-to-live has elapsed
Tick ==
    /\ now < MaxNow
    /\ now' = now + TickSeconds
    /\ sessions' = Unexpired(sessions, now + TickSeconds)
    /\ revocations' = Unexpired(revocations, now + TickSeconds)
    /\ UNCHANGED <<reqs, users, oauth_accounts, sid_counter, settings, size_metrics,
                   timeout_metrics, history>>

\* revoke(unique_id, remaining_ttl): the identifier is written to the
\* revocation store with the token's remaining lifetime as its TTL
revoke(store, jti, remaining_ttl, t) == redis_setex(store, jti, remaining_ttl, "revoked", t)

\* an unexpired token is revoked
Revoke(token) ==
    LET claims == TokenContent(token).claims IN
    /\ jwt_decode(token, now).raised = None
    /\ claims.jti \notin DOMAIN revocations
    /\ claims.exp > now
    /\ revocations' = revoke(revocations, claims.jti, claims.exp - now, now)
    /\ UNCHANGED <<reqs, users, oauth_accounts, sessions, sid_counter, now, settings,
                   size_metrics, timeout_metrics, history>>

\* SessionManager.refresh_session called on demand for a live session
RefreshSession(session_id) ==
    /\ session_id \in DOMAIN sessions
    /\ sessions' = refresh_session(sessions, session_id, now)
    /\ history' = [history EXCEPT !.refreshed = @ \cup {session_id}]
    /\ UNCHANGED <<reqs, users, oauth_accounts, revocations, sid_counter, now, settings,
                   size_metrics, timeout_metrics>>

----------------------------------------------------------------------------
(* Initial state: empty tables, empty Redis, no request in flight *)

\* the last answer of a direct get_session call: none yet
NothingRead == [session_id |-> 0, found |-> FALSE, data |-> <<>>, deleted |-> FALSE,
                raised |-> None, malformed |-> FALSE]
NothingResolved == [path |-> None, method |-> None, limit |-> 0, timeout |-> 0]
\* the last decode of an issued token: none yet
NothingDecoded == [token |-> 0, at |-> 0, raised |-> None, payload |-> NoClaims]
\* the last direct call of refresh_session or delete_session: none yet
\* (`turn` alternates, so that every call is a change)
NoCall == [op |-> None, session_id |-> 0, returned |-> FALSE, turn |-> FALSE]
\* the answers the clients have received from the two guards: none yet
NothingAnswered == [rejected |-> 0, timed_out |-> 0, requests |-> 0]
NothingWritten == [path |-> None, scheme |-> None, x_forwarded_proto |-> None, headers |-> {}]

Init ==
    /\ reqs = [r \in Tasks |-> IdleRequest]
    /\ users = <<>>
    /\ oauth_accounts = <<>>
    /\ sessions = <<>>
    /\ revocations = <<>>
    /\ sid_counter = 0
    /\ now = StartTime
    /\ settings = DefaultSettings
    /\ size_metrics = [rejected_total |-> 0, rejected_per_endpoint |-> <<>>]
    /\ timeout_metrics = [total_timeouts |-> 0, timeouts_per_endpoint |-> <<>>,
                          timeouts_per_method |-> <<>>]
    /\ history = [created_at |-> <<>>, owner |-> <<>>, refreshed |-> {}, logged_out |-> {},
                  got |-> NothingRead,
                  resolved |-> NothingResolved, written |-> NothingWritten,
                  answered |-> NothingAnswered, called |-> NoCall,
                  issued |-> <<>>, decoded |-> NothingDecoded]

----------------------------------------------------------------------------
(* The chain under arbitrary requests to "/" *)

ChainTokens == {None, "tok_u1", "tok_old", "tok_garbage"}
ChainContentLengths == {NoContentLength, BadContentLength,
                        ContentLength(MAX_UPLOAD_SIZE), ContentLength(MAX_UPLOAD_SIZE + 1)}
ChainBodies == {NoBody, InvalidJsonBody,
                JsonBody(JList(<<JStr(<<"<script>", "hello", "</script>">>)>>)),
                JsonBody(Nest(MAX_JSON_DEPTH + 1, JStr(<<"too deep">>))),
                JsonBody(Nest(MAX_JSON_DEPTH, JList(<<>>)))}
ChainHosts == {"localhost", "evil.example"}
\* no cookie, or the id of a session that does not exist
ChainSessionCookies == {0, 1}

ReceiveRequest(r) ==
    /\ reqs[r].pc = "idle"
    /\ size_metrics.rejected_total < MaxRejections
    /\ timeout_metrics.total_timeouts < MaxRejections
    /\ \E token \in ChainTokens, cl \in ChainContentLengths, body \in ChainBodies,
          host \in ChainHosts, session_id \in ChainSessionCookies :
          reqs' = [reqs EXCEPT ![r] =
                     NewRequest(IF body = NoBody THEN "GET" ELSE "POST", "/", host,
                                token, None, session_id, cl, body # NoBody, body, <<>>,
                                NoCredentials)]
    /\ UNCHANGED <<size_metrics, timeout_metrics>> /\ Others

Pipeline(r) ==
    \/ RequestLoggingMiddleware(r)
    \/ RequestIDMiddleware(r)
    \/ UserContextMiddleware(r)
    \/ UserContextSession(r)
    \/ RequestValidationMiddleware(r)
    \/ TimeoutMiddleware(r)
    \/ RequestSizeLimitMiddleware(r)
    \/ SecurityHeadersMiddleware(r)
    \/ GZipMiddleware(r)
    \/ CORSMiddleware(r)
    \/ TrustedHostMiddleware(r)
    \/ Respond(r)
    \/ Complete(r)

ChainTasks == {"r1"}

NextChain ==
    \E r \in ChainTasks :
        \/ ReceiveRequest(r)
        \/ Pipeline(r)
        \/ TimeoutExpires(r)
        \/ root(r)
        \/ DownstreamRaises(r)

SpecChain == Init /\ [][NextChain]_vars

\* the steps the event loop runs as soon as they are ready: the code of the
\* stages between two awaits and the way back of the response
ScheduledSteps(r) ==
    \/ RequestLoggingMiddleware(r)
    \/ RequestIDMiddleware(r)
    \/ UserContextMiddleware(r)
    \/ RequestValidationMiddleware(r)
    \/ TimeoutMiddleware(r)
    \/ RequestSizeLimitMiddleware(r)
    \/ SecurityHeadersMiddleware(r)
    \/ GZipMiddleware(r)
    \/ CORSMiddleware(r)
    \/ TrustedHostMiddleware(r)
    \/ Respond(r)
    \/ Complete(r)

\* The chain with its scheduling.  The event loop runs every ready step and
\* fires the timer of wait_for (timeout.py 46); nothing bounds the answer of
\* the session store (security/redis.py: a pool without socket timeout) nor
\* the work of a handler, so UserContextSession, root and DownstreamRaises
\* carry no fairness.
SpecChainFair ==
    /\ Init /\ [][NextChain]_vars
    /\ \A r \in ChainTasks : WF_vars(ScheduledSteps(r)) /\ WF_vars(TimeoutExpires(r))

----------------------------------------------------------------------------
(* Registration, password and social login, identity check, logout *)

Emails == {"a@x.com", "b@x.com"}
Passwords == {"secret123", "hunter2"}
RegisterPasswords == {"secret123"}
SocialIdentities == {[provider |-> "google", sub |-> "g-1", email |-> "b@x.com"]}

InFlight == {r \in Tasks : reqs[r].pc \notin {"idle", "done"}}

\* logins under way that will draw a session id
PendingLogins ==
    Cardinality({r \in InFlight : reqs[r].path \in {"/auth/login", "/auth/google"}
                                   /\ reqs[r].pc # "respond"})

\* a request without token, body checks or query, as the browser client sends it
ClientRequest(method, path, session_id, credentials, social) ==
    [NewRequest(method, path, "localhost", None, None, session_id, NoContentLength,
                FALSE, NoBody, <<>>, credentials)
     EXCEPT !.social = social, !.after_logout = session_id \in history.logged_out]

Arrives(r, q) ==
    /\ reqs[r].pc = "idle"
    /\ reqs' = [reqs EXCEPT ![r] = q]
    /\ UNCHANGED <<size_metrics, timeout_metrics>> /\ Others

PostRegister(r) ==
    \E email \in Emails, password \in RegisterPasswords :
        Arrives(r, [ClientRequest("POST", "/auth/register", 0,
                                  [email |-> email, password |-> password], NoIdentity)
                    EXCEPT !.known_on_arrival = user_by_email(users, email) # 0])

\* once MaxSessions ids are drawn, only the attempts that draw none arrive
PostLogin(r) ==
    \E email \in Emails, password \in Passwords :
        /\ \/ sid_counter + PendingLogins < MaxSessions
           \/ authenticate_user(users, email, password) = 0
        /\ Arrives(r, ClientRequest("POST", "/auth/login", 0,
                                    [email |-> email, password |-> password], NoIdentity))

PostGoogle(r) ==
    /\ sid_counter + PendingLogins < MaxSessions
    /\ \E id \in SocialIdentities :
          Arrives(r, ClientRequest("POST", "/auth/google", 0, NoCredentials, id))

\* the cookies a client can hold: none, or a session id handed out so far
GetMe(r) ==
    \E session_id \in 0..sid_counter :
        Arrives(r, ClientRequest("GET", "/auth/me", session_id, NoCredentials, NoIdentity))

PostLogout(r) ==
    \E session_id \in 0..sid_counter :
        Arrives(r, ClientRequest("POST", "/auth/logout", session_id, NoCredentials,
                                 NoIdentity))

FlowTasks == {"r1"}

NextFlow ==
    \/ \E r \in FlowTasks :
          \/ PostRegister(r)
          \/ PostLogin(r)
          \/ PostGoogle(r)
          \/ GetMe(r)
          \/ PostLogout(r)
          \/ Pipeline(r)
          \/ register(r)
          \/ login_cookie(r)
          \/ login_google(r)
          \/ check_auth_status(r)
          \/ logout(r)
    \/ Tick
    \/ \E session_id \in 1..MaxSessions : RefreshSession(session_id)

SpecFlow == Init /\ [][NextFlow]_vars

----------------------------------------------------------------------------
(* The resolver under concurrent requests that carry tokens and a session   *)
(* cookie.  It starts where a@x.com and b@x.com have registered and b@x.com *)
(* has logged in, a state of SpecFlow.                                      *)

InitSignedIn ==
    /\ reqs = [r \in Tasks |-> IdleRequest]
    /\ users = <<[email |-> "a@x.com", password_hash |-> get_password_hash("secret123")],
                 [email |-> "b@x.com", password_hash |-> get_password_hash("secret123")]>>
    /\ oauth_accounts = <<>>
    /\ sessions = create_session(<<>>, 1, 2, "b@x.com", <<>>, StartTime)
    /\ revocations = <<>>
    /\ sid_counter = 1
    /\ now = StartTime
    /\ settings = DefaultSettings
    /\ size_metrics = [rejected_total |-> 0, rejected_per_endpoint |-> <<>>]
    /\ timeout_metrics = [total_timeouts |-> 0, timeouts_per_endpoint |-> <<>>,
                          timeouts_per_method |-> <<>>]
    /\ history = [created_at |-> <<StartTime>>,
                  owner |-> <<[user_id |-> 2, email |-> "b@x.com"]>>,
                  refreshed |-> {}, logged_out |-> {}, got |-> NothingRead,
                  resolved |-> NothingResolved, written |-> NothingWritten,
                  answered |-> NothingAnswered, called |-> NoCall,
                  issued |-> <<>>, decoded |-> NothingDecoded]

\* the token of the Authorization header: none, empty, or a token string
BearerHeaders == {None, "", "tok_u1", "tok_old", "tok_nosub", "tok_badsig", "tok_garbage"}
AccessTokenCookies == {None, "tok_u2"}
\* no session cookie, or the cookie of b@x.com's session
SessionCookies == {0, 1}
RevocableTokens == {"tok_u1"}

\* the jti of the request's token is in the revocation store
Revoked(q) ==
    /\ Presented(extract_token(q))
    /\ TokenContent(extract_token(q)).claims.jti \in DOMAIN revocations

ReceiveBearer(r) ==
    /\ reqs[r].pc = "idle"
    /\ \E authorization \in BearerHeaders, access_token \in AccessTokenCookies,
          session_id \in SessionCookies :
          LET q == NewRequest("GET", "/", "localhost", authorization, access_token,
                              session_id, NoContentLength, FALSE, NoBody, <<>>,
                              NoCredentials)
          IN  reqs' = [reqs EXCEPT ![r] = [q EXCEPT !.revoked_on_arrival = Revoked(q)]]
    /\ UNCHANGED <<size_metrics, timeout_metrics>> /\ Others

NextResolver ==
    \/ \E r \in Tasks :
          \/ ReceiveBearer(r)
          \/ Pipeline(r)
          \/ root(r)
    \/ \E token \in RevocableTokens : Revoke(token)

SpecResolver == InitSignedIn /\ [][NextResolver]_vars

----------------------------------------------------------------------------
(* The SessionManager called directly *)

UserIds == {1, 2}
AdditionalData == {<<>>, [role |-> "admin"], [user_id |-> 2], [email |-> "b@x.com"]}

CreateSession(user_id, email, additional_data) ==
    /\ sid_counter < MaxSessions
    /\ SessionCreatedWith(user_id, email, additional_data)
    /\ UNCHANGED <<reqs, users, oauth_accounts, revocations, now, settings, size_metrics,
                   timeout_metrics>>

GetSession(session_id) ==
    /\ history' = [history EXCEPT !.got =
          [session_id |-> session_id,
           found |-> get_session(sessions, session_id, now).found,
           data |-> get_session(sessions, session_id, now).data,
           deleted |-> session_id \in history.logged_out,
           raised |-> get_session(sessions, session_id, now).raised,
           malformed |-> LET got == redis_get(sessions, session_id, now)
                         IN  got.found /\ json_loads_raises(got.value)]]
    /\ UNCHANGED <<reqs, users, oauth_accounts, sessions, revocations, sid_counter, now, settings,
                   size_metrics, timeout_metrics>>

DeleteSession(session_id) ==
    /\ sessions' = delete_session(sessions, session_id)
    /\ history' = [history EXCEPT !.logged_out = @ \cup {session_id}]
    /\ UNCHANGED <<reqs, users, oauth_accounts, revocations, sid_counter, now, settings,
                   size_metrics, timeout_metrics>>

\* what another client of the Redis instance can leave under a session key
StoredTexts == {Malformed(""), Malformed("{not json")}

\* the value under a live session key is overwritten from outside; the
\* time-to-live stays (SET with KEEPTTL)
ExternalWrite(session_id, text) ==
    /\ session_id \in DOMAIN sessions
    /\ sessions[session_id].value # text
    /\ sessions' = [sessions EXCEPT ![session_id].value = text]
    /\ UNCHANGED <<reqs, users, oauth_accounts, revocations, sid_counter, now, settings,
                   size_metrics, timeout_metrics, history>>

NextSession ==
    \/ \E user_id \in UserIds, email \in Emails, additional_data \in AdditionalData :
          CreateSession(user_id, email, additional_data)
    \/ \E session_id \in 1..sid_counter, text \in StoredTexts :
          ExternalWrite(session_id, text)
    \/ \E session_id \in 1..sid_counter : GetSession(session_id)
    \/ \E session_id \in 1..sid_counter : DeleteSession(session_id)
    \/ \E session_id \in 1..sid_counter : RefreshSession(session_id)
    \/ Tick

SpecSession == Init /\ [][NextSession]_vars

----------------------------------------------------------------------------
(* refresh_session and delete_session called directly, on a store that     *)
(* holds several sessions                                                  *)

MaxStored == 2

\* the users who log in
EmailOf == [user_id \in UserIds |-> IF user_id = 1 THEN "a@x.com" ELSE "b@x.com"]

\* create_session as the routers call it, without additional data
CreateStored(user_id, email) ==
    /\ sid_counter < MaxStored
    /\ SessionCreated(user_id, email)
    /\ UNCHANGED <<reqs, users, oauth_accounts, revocations, now, settings, size_metrics,
                   timeout_metrics>>

\* refresh_session called with no id, or with the id of a session that is
\* live, expired or deleted
RefreshCall(session_id) ==
    /\ sessions' = refresh_session(sessions, session_id, now)
    /\ history' = [history EXCEPT
          !.called = [op |-> "refresh_session", session_id |-> session_id,
                      returned |-> refresh_session_returns(sessions, session_id, now),
                      turn |-> ~@.turn]]
    /\ UNCHANGED <<reqs, users, oauth_accounts, revocations, sid_counter, now, settings,
                   size_metrics, timeout_metrics>>

\* delete_session called with no id, or with the id of a session that is
\* live, expired or deleted
DeleteCall(session_id) ==
    /\ sessions' = delete_session(sessions, session_id)
    /\ history' = [history EXCEPT
          !.called = [op |-> "delete_session", session_id |-> session_id, returned |-> FALSE,
                      turn |-> ~@.turn]]
    /\ UNCHANGED <<reqs, users, oauth_accounts, revocations, sid_counter, now, settings,
                   size_metrics, timeout_metrics>>

NextStore ==
    \/ \E user_id \in UserIds : CreateStored(user_id, EmailOf[user_id])
    \/ \E session_id \in 0..sid_counter : RefreshCall(session_id)
    \/ \E session_id \in 0..sid_counter : DeleteCall(session_id)
    \/ Tick

SpecStore == Init /\ [][NextStore]_vars

----------------------------------------------------------------------------
(* The two resolvers under configured rule lists *)

MaxRules == 2

PolicyPatterns == {"^/upload", "^/", "large"}
PolicyRuleMethods == {None, "post", "GET"}
PolicyValues == {1, 2}
PolicyPaths == {"/", "/upload/large", "/auth/login"}
PolicyMethods == {"GET", "POST"}

\* SizeLimitRule(path_pattern, method, limit) / TimeoutRule(path_pattern, method, timeout)
SizeLimitRule(path_pattern, method, limit) ==
    [path_pattern |-> path_pattern, method |-> method, limit |-> limit]
TimeoutRule(path_pattern, method, timeout) ==
    [path_pattern |-> path_pattern, method |-> method, timeout |-> timeout]

\* what a deployment declares: patterns, method filters and values, in order
RuleDeclarations ==
    UNION {[1..n -> PolicyPatterns \X PolicyRuleMethods \X PolicyValues] : n \in 0..MaxRules}

\* the same declarations as SIZE_LIMIT_RULES and as TIMEOUT_RULES
SettingsOf(decl) ==
    [DefaultSettings EXCEPT
       !.SIZE_LIMIT_RULES = [i \in 1..Len(decl) |-> SizeLimitRule(decl[i][1], decl[i][2], decl[i][3])],
       !.TIMEOUT_RULES = [i \in 1..Len(decl) |-> TimeoutRule(decl[i][1], decl[i][2], decl[i][3])]]

InitPolicy ==
    /\ reqs = [r \in Tasks |-> IdleRequest]
    /\ users = <<>>
    /\ oauth_accounts = <<>>
    /\ sessions = <<>>
    /\ revocations = <<>>
    /\ sid_counter = 0
    /\ now = StartTime
    /\ \E decl \in RuleDeclarations : settings = SettingsOf(decl)
    /\ size_metrics = [rejected_total |-> 0, rejected_per_endpoint |-> <<>>]
    /\ timeout_metrics = [total_timeouts |-> 0, timeouts_per_endpoint |-> <<>>,
                          timeouts_per_method |-> <<>>]
    /\ history = [created_at |-> <<>>, owner |-> <<>>, refreshed |-> {}, logged_out |-> {},
                  got |-> NothingRead,
                  resolved |-> NothingResolved, written |-> NothingWritten,
                  answered |-> NothingAnswered, called |-> NoCall,
                  issued |-> <<>>, decoded |-> NothingDecoded]

\* both resolvers called for one request (size_limit.py:40, timeout.py:40)
Resolve(path, method) ==
    /\ history' = [history EXCEPT !.resolved =
                      [path |-> path, method |-> method,
                       limit |-> get_limit_for_request(path, method),
                       timeout |-> get_timeout_for_request(path, method)]]
    /\ UNCHANGED <<reqs, users, oauth_accounts, sessions, revocations, sid_counter, now,
                   settings, size_metrics, timeout_metrics>>

NextPolicy == \E path \in PolicyPaths, method \in PolicyMethods : Resolve(path, method)

SpecPolicy == InitPolicy /\ [][NextPolicy]_vars

----------------------------------------------------------------------------
(* The chain under requests with query strings, with and without a schema *)
(* for the path                                                            *)

MaxQuery == 2

QueryKeys == {"q", "x"}
QueryValues == {<<"abc">>, <<"ab">>, <<"<script>", "abc", "</script>">>}
\* request.query_params.multi_items(): the pairs in order, repeated keys kept
Queries == UNION {[1..n -> QueryKeys \X QueryValues] : n \in 0..MaxQuery}
QueryBodies == {NoBody, JsonBody(JList(<<JStr(<<"<script>", "hello", "</script>">>)>>))}

\* ENDPOINT_SCHEMAS["/"] = QuerySchema, as the tests register a schema
WithSchema == [DefaultSettings EXCEPT !.ENDPOINT_SCHEMAS = [path \in {"/"} |-> QuerySchema]]

InitValidation ==
    /\ reqs = [r \in Tasks |-> IdleRequest]
    /\ users = <<>>
    /\ oauth_accounts = <<>>
    /\ sessions = <<>>
    /\ revocations = <<>>
    /\ sid_counter = 0
    /\ now = StartTime
    /\ settings \in {DefaultSettings, WithSchema}
    /\ size_metrics = [rejected_total |-> 0, rejected_per_endpoint |-> <<>>]
    /\ timeout_metrics = [total_timeouts |-> 0, timeouts_per_endpoint |-> <<>>,
                          timeouts_per_method |-> <<>>]
    /\ history = [created_at |-> <<>>, owner |-> <<>>, refreshed |-> {}, logged_out |-> {},
                  got |-> NothingRead,
                  resolved |-> NothingResolved, written |-> NothingWritten,
                  answered |-> NothingAnswered, called |-> NoCall,
                  issued |-> <<>>, decoded |-> NothingDecoded]

ReceiveQuery(r) ==
    /\ reqs[r].pc = "idle"
    /\ \E query \in Queries, body \in QueryBodies, session_id \in ChainSessionCookies :
          reqs' = [reqs EXCEPT ![r] =
                     NewRequest(IF body = NoBody THEN "GET" ELSE "POST", "/", "localhost",
                                None, None, session_id, NoContentLength, body # NoBody,
                                body, query, NoCredentials)]
    /\ UNCHANGED <<size_metrics, timeout_metrics>> /\ Others

NextValidation ==
    \E r \in ChainTasks :
        \/ ReceiveQuery(r)
        \/ Pipeline(r)
        \/ root(r)

SpecValidation == InitValidation /\ [][NextValidation]_vars

----------------------------------------------------------------------------
(* The security header writer under configured overrides and HTTPS switches *)

HeaderPatterns == {"^/docs", "^/"}
XFrameChoices == {None, "SAMEORIGIN"}
CspChoices == {None, docs_csp}
PermissionsChoices == {None, "camera=()"}
HeaderPaths == {"/", "/docs"}
Schemes == {"http", "https"}
ForwardedProtos == {None, "http", "https"}

OverrideDeclarations ==
    UNION {[1..n -> HeaderPatterns \X XFrameChoices \X CspChoices \X PermissionsChoices] :
              n \in 0..MaxRules}

InitHeaders ==
    /\ reqs = [r \in Tasks |-> IdleRequest]
    /\ users = <<>>
    /\ oauth_accounts = <<>>
    /\ sessions = <<>>
    /\ revocations = <<>>
    /\ sid_counter = 0
    /\ now = StartTime
    /\ \E decl \in OverrideDeclarations, force, subdomains, preload \in BOOLEAN :
          settings = [DefaultSettings EXCEPT
              !.SECURITY_OVERRIDES =
                  [i \in 1..Len(decl) |->
                      SecurityOverrides(decl[i][1], decl[i][2], decl[i][3], decl[i][4])],
              !.SECURITY_FORCE_HTTPS = force,
              !.SECURITY_HSTS_INCLUDE_SUBDOMAINS = subdomains,
              !.SECURITY_HSTS_PRELOAD = preload]
    /\ size_metrics = [rejected_total |-> 0, rejected_per_endpoint |-> <<>>]
    /\ timeout_metrics = [total_timeouts |-> 0, timeouts_per_endpoint |-> <<>>,
                          timeouts_per_method |-> <<>>]
    /\ history = [created_at |-> <<>>, owner |-> <<>>, refreshed |-> {}, logged_out |-> {},
                  got |-> NothingRead,
                  resolved |-> NothingResolved, written |-> NothingWritten,
                  answered |-> NothingAnswered, called |-> NoCall,
                  issued |-> <<>>, decoded |-> NothingDecoded]

\* SecurityHeadersMiddleware.dispatch on the response its call_next returned,
\* for one request under each configuration
WriteHeaders(path, scheme, x_forwarded_proto) ==
    /\ history.written = NothingWritten
    /\ LET q == [IdleRequest EXCEPT !.path = path, !.scheme = scheme,
                                    !.x_forwarded_proto = x_forwarded_proto]
       IN  history' = [history EXCEPT !.written =
              [path |-> path, scheme |-> scheme, x_forwarded_proto |-> x_forwarded_proto,
               headers |-> security_headers(q, Response("ok", 200, "handler")).headers]]
    /\ UNCHANGED <<reqs, users, oauth_accounts, sessions, revocations, sid_counter, now,
                   settings, size_metrics, timeout_metrics>>

NextHeaders ==
    \E path \in HeaderPaths, scheme \in Schemes, x_forwarded_proto \in ForwardedProtos :
        WriteHeaders(path, scheme, x_forwarded_proto)

SpecHeaders == InitHeaders /\ [][NextHeaders]_vars

----------------------------------------------------------------------------
(* Claims about the chain *)

Last(s) == s[Len(s)]

RejectingStages == {"UserContextMiddleware", "RequestValidationMiddleware",
                    "RequestSizeLimitMiddleware"}

\* C1: once a stage has answered with its rejection (the resolver's 401, the
\* validation gate's 400, the size guard's 413), the rejecting stage is the
\* last one the request has entered: no later stage and no route handler is
\* invoked for it.
C1_RejectionShortCircuits ==
    \A r \in Tasks :
        reqs[r].resp.origin \in RejectingStages =>
            /\ Last(reqs[r].entered) = reqs[r].resp.origin
            /\ ~Contains(reqs[r].entered, "handler")
            /\ reqs[r].resp.status \in {400, 401, 413}

\* a request answered 413 by the size guard, the innermost rejecting stage
C1_Witness ==
    \E r \in Tasks :
        /\ reqs[r].pc = "done"
        /\ reqs[r].resp.origin = "RequestSizeLimitMiddleware"
        /\ reqs[r].resp.status = 413

\* C2: a request that has reached a route handler has entered the stages in
\* exactly the order logging, request id, auth resolution, validation,
\* timeout, size guard, security headers, compression, CORS, host check.
C2_FixedStageOrder ==
    \A r \in Tasks :
        Contains(reqs[r].entered, "handler") =>
            reqs[r].entered =
                <<"RequestLoggingMiddleware", "RequestIDMiddleware", "UserContextMiddleware",
                  "RequestValidationMiddleware", "TimeoutMiddleware",
                  "RequestSizeLimitMiddleware", "SecurityHeadersMiddleware",
                  "GZipMiddleware", "CORSMiddleware", "TrustedHostMiddleware", "handler">>

\* a request answered 200 by its route handler
C2_Witness ==
    \E r \in Tasks :
        /\ reqs[r].pc = "done"
        /\ reqs[r].resp.origin = "handler"
        /\ reqs[r].resp.status = 200

----------------------------------------------------------------------------
(* Claims about the resolver *)

Answered(r) == reqs[r].pc \in {"respond", "done"}

\* the request's token, decoded at the present time
Decoded(q) == jwt_decode(extract_token(q), now)

PastResolver(q) == Contains(q.entered, "UserContextMiddleware")

AuthenticatedByToken(q) == q.state.authenticated /\ q.state.user.username # None
AuthenticatedBySession(q) == q.state.authenticated /\ q.state.user.id # 0

\* C3: a request whose token decodes (valid signature, not expired) leaves
\* the resolver authenticated by the token, with the token's sub as its
\* identity, and without a lookup in the session store, whatever session
\* cookie it carries.
C3_TokenFirst ==
    \A r \in Tasks :
        LET q == reqs[r] IN
        (PastResolver(q) /\ Presented(extract_token(q)) /\ Decoded(q).raised = None) =>
            /\ q.pc # "await_session"
            /\ q.session_lookups = 0
            /\ AuthenticatedByToken(q)
            /\ q.state.user_id = Decoded(q).payload.sub

\* C4: a request whose token is expired, malformed or signed with another
\* key is answered 401 by the resolver itself: the session store is not
\* queried and no later stage nor the handler is entered, whatever session
\* cookie it carries.
C4_BadTokenShortCircuits ==
    \A r \in Tasks :
        LET q == reqs[r] IN
        (PastResolver(q) /\ Presented(extract_token(q)) /\ Decoded(q).raised # None) =>
            /\ Answered(r)
            /\ q.resp.status = 401
            /\ q.resp.origin = "UserContextMiddleware"
            /\ q.session_lookups = 0
            /\ ~q.state.authenticated
            /\ Last(q.entered) = "UserContextMiddleware"

\* an expired token in the Authorization header, sent with the cookie of
\* b@x.com's live session, answered 401
C4_Witness ==
    \E r \in Tasks :
        /\ reqs[r].pc = "done"
        /\ reqs[r].authorization = "tok_old"
        /\ get_session(sessions, reqs[r].session_id, now).found
        /\ reqs[r].resp.status = 401

\* why the resolver must fail a request, None when it need not
FailureCause(q) ==
    IF ~Presented(extract_token(q)) THEN None
    ELSE IF Decoded(q).raised = "ExpiredSignatureError" THEN "expired"
    ELSE IF Decoded(q).raised = "JWTError" THEN "malformed"
    ELSE IF q.revoked_on_arrival THEN "revoked"
    ELSE None

\* the headers that differ from one request to the next whatever the outcome
PerRequestHeaders == {"X-Request-ID", "X-Process-Time"}

Visible(resp) == [status |-> resp.status, body |-> resp.body,
                  headers |-> {h \in resp.headers : h[1] \notin PerRequestHeaders}]

\* C5: any two requests that the resolver must fail, for an expired, a
\* malformed or badly signed, or a revoked token, receive 401 responses with
\* the same body and the same headers.
C5_UniformAuthFailure ==
    \A r1, r2 \in Tasks :
        (/\ reqs[r1].pc = "done" /\ reqs[r2].pc = "done"
         /\ FailureCause(reqs[r1]) # None /\ FailureCause(reqs[r2]) # None) =>
            /\ reqs[r1].resp.status = 401
            /\ Visible(reqs[r1].resp) = Visible(reqs[r2].resp)

\* C6: a request that arrives carrying a token whose jti is already revoked
\* never becomes authenticated by that token, and is answered 401, whatever
\* other requests run at the same time.
C6_RevokedTokenRejected ==
    \A r \in Tasks :
        reqs[r].revoked_on_arrival =>
            /\ ~AuthenticatedByToken(reqs[r])
            /\ Answered(r) => reqs[r].resp.status = 401

----------------------------------------------------------------------------
(* Claims about sessions and password login *)

\* C7: a successful POST /auth/login hands out the cookie of a session owned
\* by the user who logged in; GET /auth/me with a session cookie answers 200
\* with the owner's email whenever the session exists when the handler reads
\* it, and 401 otherwise; and every GET /auth/me that arrives after a logout
\* with the same cookie has run is answered 401.
C7_LoginMeLogout ==
    /\ [](\A r \in Tasks :
            /\ (Answered(r) /\ reqs[r].path = "/auth/login" /\ reqs[r].resp.status = 200) =>
                   /\ reqs[r].resp.set_cookie \in 1..sid_counter
                   /\ history.owner[reqs[r].resp.set_cookie].email = reqs[r].credentials.email
            /\ (Answered(r) /\ reqs[r].path = "/auth/me" /\ reqs[r].after_logout) =>
                   reqs[r].resp.status = 401)
    /\ [][\A r \in Tasks :
            (reqs[r].pc = "handler" /\ reqs[r].path = "/auth/me"
             /\ reqs'[r].pc = "respond" /\ reqs[r].session_id # 0) =>
                IF reqs[r].session_id \in DOMAIN sessions
                THEN /\ reqs'[r].resp.status = 200
                     /\ reqs'[r].resp.email = history.owner[reqs[r].session_id].email
                ELSE reqs'[r].resp.status = 401]_vars

\* GET /auth/me answered 401 for the cookie of a@x.com's password session,
\* after the logout that carried it
C7_Witness ==
    \E r \in Tasks :
        /\ reqs[r].pc = "done" /\ reqs[r].path = "/auth/me"
        /\ reqs[r].after_logout
        /\ reqs[r].session_id \in history.logged_out
        /\ history.owner[reqs[r].session_id].email = "a@x.com"
        /\ reqs[r].resp.status = 401

\* C8: a get_session that finds a session returns the user_id and the email
\* that were passed to the create_session that made it, whatever additional
\* data was passed with them, and a get_session after the delete_session of
\* the id finds nothing.
C8_SessionRoundTrip ==
    LET got == history.got IN
    got.session_id # 0 =>
        /\ got.found =>
              /\ record_user_id(got.data) = history.owner[got.session_id].user_id
              /\ record_email(got.data) = history.owner[got.session_id].email
        /\ got.deleted => ~got.found

\* C9: a session that was never explicitly refreshed keeps the expiry it was
\* created with, created_at + session_ttl, however many requests looked it
\* up, and reads as absent from that moment on, which is before the max-age
\* of its cookie has elapsed.
C9_NoSlidingExpiration ==
    /\ session_ttl < cookie_max_age
    /\ \A s \in 1..sid_counter :
          s \notin history.refreshed =>
             /\ s \in DOMAIN sessions =>
                   sessions[s].expires_at = history.created_at[s] + session_ttl
             /\ now >= history.created_at[s] + session_ttl =>
                   ~get_session(sessions, s, now).found

\* GET /auth/me carrying the cookie of a session that was looked up by the
\* resolver, never refreshed nor logged out, answered 401 once 24h have passed
\* and before the cookie's 7 days have
C9_Witness ==
    \E r \in Tasks :
        /\ reqs[r].pc = "done" /\ reqs[r].path = "/auth/me"
        /\ reqs[r].session_id \in 1..sid_counter
        /\ reqs[r].session_id \notin history.refreshed \cup history.logged_out
        /\ reqs[r].session_lookups = 1
        /\ now >= history.created_at[reqs[r].session_id] + session_ttl
        /\ now < history.created_at[reqs[r].session_id] + cookie_max_age
        /\ reqs[r].resp.status = 401 /\ reqs[r].resp.body = "Session expired"

\* the user rows without a password hash
FederationOnly == {i \in 1..Len(users) : users[i].password_hash = NoHash}

\* C10: authenticate_user returns None for every user whose password hash is
\* absent, whatever password is supplied, and a POST /auth/login naming such
\* a user is answered 401 without a session cookie.
C10_NoPasswordLoginWithoutHash ==
    /\ \A i \in FederationOnly : \A password \in Passwords \cup {None, ""} :
          authenticate_user(users, users[i].email, password) = 0
    /\ \A r \in Tasks :
          (Answered(r) /\ reqs[r].path = "/auth/login"
           /\ user_by_email(users, reqs[r].credentials.email) \in FederationOnly) =>
              /\ reqs[r].resp.status = 401
              /\ reqs[r].resp.set_cookie = 0

\* a POST /auth/login for the user created by a social login, answered 401
C10_Witness ==
    \E r \in Tasks :
        /\ reqs[r].pc = "done" /\ reqs[r].path = "/auth/login"
        /\ user_by_email(users, reqs[r].credentials.email) \in FederationOnly
        /\ reqs[r].resp.status = 401
        /\ reqs[r].resp.body = "Incorrect email or password"

----------------------------------------------------------------------------
(* Failed logins *)

\* the three ways in which the credentials of a login fail
UnknownEmail(c) == user_by_email(users, c.email) = 0
NoPasswordHash(c) ==
    ~UnknownEmail(c) /\ users[user_by_email(users, c.email)].password_hash = NoHash
WrongPassword(c) ==
    /\ ~UnknownEmail(c) /\ ~NoPasswordHash(c)
    /\ users[user_by_email(users, c.email)].password_hash # get_password_hash(c.password)

\* C11: POST /auth/login gives the same 401 response, with detail 'Incorrect
\* email or password', for an unknown email, for a wrong password and for an
\* account without password hash, and in each of these cases it creates no
\* session record and sets no session_id cookie.
C11_UniformLoginFailure ==
    [][\A r \in Tasks :
          (/\ reqs[r].pc = "handler" /\ reqs[r].path = "/auth/login"
           /\ reqs'[r].pc # "handler"
           /\ \/ UnknownEmail(reqs[r].credentials)
              \/ NoPasswordHash(reqs[r].credentials)
              \/ WrongPassword(reqs[r].credentials)) =>
             /\ Visible(reqs'[r].resp) =
                    [status |-> 401, body |-> "Incorrect email or password", headers |-> {}]
             /\ reqs'[r].resp.set_cookie = 0
             /\ sessions' = sessions
             /\ sid_counter' = sid_counter]_vars

\* a login with a wrong password for a registered account was answered, and
\* the store holds no session
C11_Witness ==
    \E r \in Tasks :
        /\ reqs[r].pc = "done" /\ reqs[r].path = "/auth/login"
        /\ WrongPassword(reqs[r].credentials)
        /\ reqs[r].resp.status = 401
        /\ reqs[r].resp.set_cookie = 0
        /\ sid_counter = 0

----------------------------------------------------------------------------
(* The size guard *)

\* the declared Content-Length is an integer above the limit resolved for the
\* path and method of the request
Oversized(q) ==
    /\ q.content_length.present /\ q.content_length.digits
    /\ q.content_length.value > get_limit_for_request(q.path, q.method)

\* C12: every request whose declared Content-Length is an integer greater
\* than the limit resolved for its path and method is answered 413 with
\* header X-Max-Content-Length equal to that limit, whatever else it carries.
C12_OversizedAlways413 ==
    \A r \in Tasks :
        (reqs[r].pc = "done" /\ Oversized(reqs[r])) =>
            /\ reqs[r].resp.status = 413
            /\ <<"X-Max-Content-Length",
                 ToString(get_limit_for_request(reqs[r].path, reqs[r].method))>>
                   \in reqs[r].resp.headers

\* C13: for a request whose declared Content-Length exceeds the resolved
\* limit, no stage of the chain reads the request body before the size guard
\* rejects it.
C13_OversizedBodyNeverRead ==
    \A r \in Tasks :
        (Oversized(reqs[r]) /\ reqs[r].body_read) =>
            Contains(reqs[r].entered, "RequestSizeLimitMiddleware")

\* the request of the step, with the bookkeeping of the chain put back
SameRequest(before, after) ==
    [after EXCEPT !.pc = before.pc, !.depth = before.depth,
                  !.entered = before.entered] = before

\* C14: the size guard forwards the request unchanged, with no rejection and
\* no counter change, whenever the Content-Length header is absent, does not
\* parse as an integer, or parses to a value at most the resolved limit.
C14_SizeGuardPasses ==
    [][\A r \in Tasks :
          (/\ AtStage(r, "RequestSizeLimitMiddleware")
           /\ reqs'[r].entered = Append(reqs[r].entered, "RequestSizeLimitMiddleware")
           /\ \/ ~reqs[r].content_length.present
              \/ ~reqs[r].content_length.digits
              \/ reqs[r].content_length.value
                    <= get_limit_for_request(reqs[r].path, reqs[r].method)) =>
             /\ SameRequest(reqs[r], reqs'[r])
             /\ reqs'[r].pc = "dispatch"
             /\ reqs'[r].depth = reqs[r].depth + 1
             /\ reqs'[r].resp = NoResponse
             /\ size_metrics' = size_metrics]_vars

\* a request with a Content-Length that is not an integer went through the
\* size guard to its handler, and nothing was counted
C14_Witness ==
    \E r \in Tasks :
        /\ reqs[r].pc = "done"
        /\ reqs[r].content_length = BadContentLength
        /\ Contains(reqs[r].entered, "RequestSizeLimitMiddleware")
        /\ reqs[r].resp.origin = "handler" /\ reqs[r].resp.status = 200
        /\ size_metrics.rejected_total = 0

----------------------------------------------------------------------------
(* Rule resolution *)

\* the literal a pattern stands for, and the beginnings of each path
LiteralOf(pattern) ==
    CASE pattern = "^/upload" -> "/upload" [] pattern = "^/" -> "/"
      [] pattern = "^/docs" -> "/docs" [] OTHER -> pattern
Beginnings(path) ==
    CASE path = "/" -> {"", "/"}
      [] path = "/upload/large" -> {"", "/", "/upload", "/upload/", "/upload/large"}
      [] path = "/auth/login" -> {"", "/", "/auth", "/auth/", "/auth/login"}
      [] path = "/docs" -> {"", "/", "/docs"}
      [] OTHER -> {""}
CaseFolded(m) ==
    CASE m \in {"get", "GET"} -> "get" [] m \in {"post", "Post", "POST"} -> "post"
      [] OTHER -> m

\* the method filter is absent or names the method, and the pattern matches
\* at the start of the path
Applies(rule, path, method) ==
    /\ rule.method = None \/ CaseFolded(rule.method) = CaseFolded(method)
    /\ LiteralOf(rule.path_pattern) \in Beginnings(path)

\* the index of the first rule in declaration order that applies, 0 for none
FirstApplicable(rules, path, method) ==
    LET S == {i \in 1..Len(rules) : Applies(rules[i], path, method)} IN
    IF S = {} THEN 0 ELSE CHOOSE i \in S : \A j \in S : i <= j

\* C15: for every path, method and ordered rule list, get_limit_for_request
\* and get_timeout_for_request return the value of the first rule in
\* declaration order whose method filter is absent or equals the request
\* method case-insensitively and whose pattern matches at the start of the
\* path, and the global default when no rule matches; on equal rule lists
\* both pick the same rule index.
C15_FirstMatchWins ==
    LET res == history.resolved
        i == FirstApplicable(settings.SIZE_LIMIT_RULES, res.path, res.method)
        j == FirstApplicable(settings.TIMEOUT_RULES, res.path, res.method)
    IN  res.path # None =>
            /\ res.limit = IF i = 0 THEN MAX_UPLOAD_SIZE ELSE settings.SIZE_LIMIT_RULES[i].limit
            /\ res.timeout = IF j = 0 THEN REQUEST_TIMEOUT ELSE settings.TIMEOUT_RULES[j].timeout
            /\ i = j

\* two rules whose patterns both match the path; the method filter of the
\* first excludes the request, and the value of the second was returned
C15_Witness ==
    LET res == history.resolved
        rules == settings.SIZE_LIMIT_RULES
    IN  /\ res.path = "/upload/large" /\ res.method = "POST"
        /\ Len(rules) = 2
        /\ rules[1].path_pattern = "^/" /\ rules[1].method = "GET" /\ rules[1].limit = 1
        /\ rules[2].path_pattern = "^/upload" /\ rules[2].method = "post" /\ rules[2].limit = 2
        /\ res.limit = 2 /\ res.timeout = 2

----------------------------------------------------------------------------
(* The timeout guard *)

\* C16: whenever downstream processing has not completed when the resolved
\* timeout elapses, the client receives the 504 of the timeout guard, and
\* never a 2xx response or a part of the handler's response.
C16_TimeoutGives504 ==
    \A r \in Tasks :
        reqs[r].timed_out =>
            /\ reqs[r].pc \in {"respond", "done"}
            /\ reqs[r].resp.status = 504
            /\ reqs[r].resp.body = "Request timed out"
            /\ reqs[r].resp.origin = "TimeoutMiddleware"

\* the deadline passed while the request was at its handler, and the client
\* has the 504
C16_Witness ==
    \E r \in Tasks :
        /\ reqs[r].pc = "done" /\ reqs[r].timed_out
        /\ Last(reqs[r].entered) = "TrustedHostMiddleware"
        /\ reqs[r].resp.status = 504
        /\ timeout_metrics.total_timeouts = 1

\* C17: the timeout guard converts only the expiry of its own deadline into
\* a 504.  A cancellation by client disconnect and every exception raised by
\* downstream code before the deadline, of any type, are raised again
\* unchanged, produce no 504 and leave the timeout counters as they were; a
\* handler that finishes before the deadline has its own response returned.
C17_OnlyDeadlineGives504 ==
    [][\A r \in Tasks :
          /\ (reqs[r].pc = "handler" /\ reqs'[r].raised # None) =>
                /\ reqs'[r].resp.status # 504
                /\ timeout_metrics' = timeout_metrics
          /\ (reqs[r].pc = "handler" /\ reqs'[r].pc = "respond"
              /\ reqs'[r].raised = None /\ ~reqs'[r].timed_out) =>
                reqs'[r].resp.origin = "handler"]_vars

\* C19: no request blocks indefinitely: every request the server has
\* received gets a response, the handler's or a 504, even when an external
\* call made on its behalf (the session-store lookup of the resolver, the
\* body read of the validation stage, a provider key fetch) never returns.
C19_NoRequestBlocksForever ==
    \A r \in Tasks : (reqs[r].pc # "idle") ~> (reqs[r].pc = "done")

----------------------------------------------------------------------------
(* JSON depth *)

Max(S) == IF S = {} THEN 0 ELSE CHOOSE x \in S : \A y \in S : x >= y

\* the number of containers nested in one another, 0 for a scalar
RECURSIVE NestingDepth(_)
NestingDepth(v) ==
    IF v.t = "list"
    THEN 1 + Max({NestingDepth(v.items[i]) : i \in 1..Len(v.items)})
    ELSE 0

\* C20: every JSON body (POST/PUT/PATCH, application/json) whose nesting
\* depth exceeds MAX_JSON_DEPTH is rejected with 400 by the validation stage
\* and never forwarded, for every shape of tree, including containers whose
\* innermost level is empty.
C20_DeepBodyRejected ==
    \A r \in Tasks :
        (/\ reqs[r].method \in {"POST", "PUT", "PATCH"} /\ reqs[r].json_content_type
         /\ reqs[r].body.kind = "json"
         /\ NestingDepth(reqs[r].body.value) > MAX_JSON_DEPTH
         /\ Contains(reqs[r].entered, "RequestValidationMiddleware")) =>
            /\ reqs[r].resp.status = 400
            /\ reqs[r].resp.origin = "RequestValidationMiddleware"
            /\ ~Contains(reqs[r].entered, "TimeoutMiddleware")

----------------------------------------------------------------------------
(* The validation gate *)

\* the gate has forwarded the request
Forwarded(q) == Contains(q.entered, "TimeoutMiddleware")

\* no tag outside the allow-list is left in the string
Clean(str) == \A i \in 1..Len(str) : str[i] \in Tags => str[i] \in ALLOWED_TAGS

RECURSIVE LeavesClean(_)
LeavesClean(v) ==
    IF v.t = "list" THEN \A i \in 1..Len(v.items) : LeavesClean(v.items[i])
    ELSE Clean(v.s)

HasSchema(q) == q.path \in DOMAIN settings.ENDPOINT_SCHEMAS
SchemaOf(q) == settings.ENDPOINT_SCHEMAS[q.path]

\* C21: whenever the validation gate forwards a request, every query pair
\* and every JSON string leaf the handler can read is the sanitized one, and
\* for a path with a schema every query value the handler can read satisfies
\* the schema, each occurrence of a repeated key included.
C21_HandlerSeesValidatedInput ==
    \A r \in Tasks :
        Forwarded(reqs[r]) =>
            /\ \A i \in 1..Len(reqs[r].query) : Clean(reqs[r].query[i][2])
            /\ reqs[r].body.kind = "json" => LeavesClean(reqs[r].body.value)
            /\ HasSchema(reqs[r]) =>
                  \A i \in 1..Len(reqs[r].query) :
                      reqs[r].query[i][1] \in SchemaOf(reqs[r]).fields =>
                          len(reqs[r].query[i][2])
                              >= SchemaOf(reqs[r]).min_length[reqs[r].query[i][1]]

\* C22: for a path that has a schema, a request carrying a query key the
\* schema does not declare is rejected with 400 and not forwarded, and so is
\* a request whose parameter violates a declared constraint.
C22_SchemaViolationRejected ==
    \A r \in Tasks :
        (/\ Contains(reqs[r].entered, "RequestValidationMiddleware")
         /\ HasSchema(reqs[r])
         /\ \E i \in 1..Len(reqs[r].query) :
               \/ reqs[r].query[i][1] \notin SchemaOf(reqs[r]).fields
               \/ /\ reqs[r].query[i][1] \in SchemaOf(reqs[r]).fields
                  /\ len(bleach_clean(reqs[r].query[i][2]))
                        < SchemaOf(reqs[r]).min_length[reqs[r].query[i][1]]) =>
            /\ reqs[r].resp.status = 400
            /\ ~Forwarded(reqs[r])

\* C23: in strict mode a request that carries query parameters to a path
\* with no declared schema is rejected and never reaches the handler.
C23_StrictModeRejects ==
    \A r \in Tasks :
        (/\ Contains(reqs[r].entered, "RequestValidationMiddleware")
         /\ VALIDATION_STRICT_MODE
         /\ ~HasSchema(reqs[r])
         /\ reqs[r].query # <<>>) =>
            /\ reqs[r].resp.status = 400
            /\ ~Contains(reqs[r].entered, "handler")

----------------------------------------------------------------------------
(* Security headers *)

HeaderValue(headers, name) ==
    IF \E h \in headers : h[1] = name THEN (CHOOSE h \in headers : h[1] = name)[2]
    ELSE None

ProtectiveHeaders == {"X-Content-Type-Options", "X-XSS-Protection", "X-Frame-Options",
                      "Content-Security-Policy", "Permissions-Policy", "Referrer-Policy"}

\* C24: every response that leaves the pipeline, the 400, 401, 413 and 504
\* of the validation, auth, size and timeout stages included, carries
\* X-Content-Type-Options: nosniff, X-XSS-Protection, X-Frame-Options,
\* Content-Security-Policy, Permissions-Policy and Referrer-Policy.
C24_EveryResponseProtected ==
    \A r \in Tasks :
        (reqs[r].pc = "done" /\ reqs[r].resp.status # 0) =>
            /\ \A name \in ProtectiveHeaders : HasHeader(reqs[r].resp, name)
            /\ <<"X-Content-Type-Options", "nosniff">> \in reqs[r].resp.headers

\* the Strict-Transport-Security value for the two flags
ExpectedHsts(subdomains, preload) ==
    CASE subdomains /\ preload -> "max-age=31536000; includeSubDomains; preload"
      [] subdomains /\ ~preload -> "max-age=31536000; includeSubDomains"
      [] ~subdomains /\ preload -> "max-age=31536000; preload"
      [] OTHER -> "max-age=31536000"

\* C25: the header writer sets Strict-Transport-Security if and only if
\* SECURITY_FORCE_HTTPS is set or the request is HTTPS (scheme https or
\* X-Forwarded-Proto: https); the value is max-age followed by
\* includeSubDomains and preload exactly when their flags are on.
C25_HstsIffHttps ==
    LET w == history.written
        https == w.scheme = "https" \/ w.x_forwarded_proto = "https"
    IN  w.path # None =>
            IF settings.SECURITY_FORCE_HTTPS \/ https
            THEN HeaderValue(w.headers, "Strict-Transport-Security") =
                    ExpectedHsts(settings.SECURITY_HSTS_INCLUDE_SUBDOMAINS,
                                 settings.SECURITY_HSTS_PRELOAD)
            ELSE \A h \in w.headers : h[1] # "Strict-Transport-Security"

\* a plain-HTTP request behind a proxy that reports https, with both flags on
C25_Witness ==
    LET w == history.written IN
    /\ w.path = "/" /\ w.scheme = "http" /\ w.x_forwarded_proto = "https"
    /\ ~settings.SECURITY_FORCE_HTTPS
    /\ settings.SECURITY_HSTS_INCLUDE_SUBDOMAINS /\ settings.SECURITY_HSTS_PRELOAD
    /\ <<"Strict-Transport-Security", "max-age=31536000; includeSubDomains; preload">>
          \in w.headers

\* the index of the first override whose pattern matches the path, 0 for none
FirstOverride(path) ==
    LET S == {i \in 1..Len(settings.SECURITY_OVERRIDES) :
                 LiteralOf(settings.SECURITY_OVERRIDES[i].path_pattern) \in Beginnings(path)}
    IN  IF S = {} THEN 0 ELSE CHOOSE i \in S : \A j \in S : i <= j

\* the field of the override at index i, the default where it is unset or i is 0
Effective(i, field, default) ==
    IF i = 0 THEN default
    ELSE IF settings.SECURITY_OVERRIDES[i][field] = None THEN default
    ELSE settings.SECURITY_OVERRIDES[i][field]

\* C26: the effective X-Frame-Options, Content-Security-Policy and
\* Permissions-Policy of a response are those of the first override in
\* declaration order whose pattern matches the path, each field the override
\* leaves unset falling back to the global default and never to a later
\* matching override, and are the global defaults when no override matches.
C26_FirstOverrideWins ==
    LET w == history.written
        i == FirstOverride(w.path)
    IN  w.path # None =>
            /\ HeaderValue(w.headers, "X-Frame-Options") =
                  Effective(i, "x_frame_options", "DENY")
            /\ HeaderValue(w.headers, "Content-Security-Policy") =
                  Effective(i, "content_security_policy", "default-src 'self'")
            /\ HeaderValue(w.headers, "Permissions-Policy") =
                  Effective(i, "permissions_policy", "geolocation=(), microphone=(), camera=()")

\* the first matching override sets the frame options only and a later
\* matching one sets a policy: the response has the default policy
C26_Witness ==
    LET w == history.written
        o == settings.SECURITY_OVERRIDES
    IN  /\ w.path = "/docs" /\ Len(o) = 2
        /\ o[1].path_pattern = "^/docs" /\ o[1].x_frame_options = "SAMEORIGIN"
        /\ o[1].content_security_policy = None
        /\ o[2].path_pattern = "^/" /\ o[2].content_security_policy = docs_csp
        /\ <<"X-Frame-Options", "SAMEORIGIN">> \in w.headers
        /\ <<"Content-Security-Policy", "default-src 'self'">> \in w.headers

----------------------------------------------------------------------------
(* Federated login, step by step.  process_social_login is called by the    *)
(* three routes; every await of get_or_create_user_via_social is a point    *)
(* where another login may run.                                             *)

MaxLogins == 3

\* google.oauth2.id_token.verify_oauth2_token(token, Request(), GOOGLE_CLIENT_ID):
\* signature, audience and issuer are verified
verify_google_token(token) == token.signature_ok /\ token.aud_ok /\ token.iss_ok

\* facebook.GraphAPI(access_token=token).get_object("me"): the Graph API
\* answers for any token Facebook issued, whichever application it was
\* issued to
verify_facebook_token(token) == token.signature_ok

\* verify_apple_token: the key set is fetched, the kid of the unverified
\* header must be in it, and the token is decoded with
\* options={"verify_signature": False}.  Whether jwt.decode then compares
\* audience and issuer depends on the installed PyJWT (no version is pinned).
verify_apple_token(token, keys_fetched, claims_checked) ==
    /\ keys_fetched
    /\ token.kid_ok
    /\ claims_checked => (token.aud_ok /\ token.iss_ok)

\* process_social_login, lines 118-126: the verifier of the provider
verify_token(provider, token, keys_fetched, claims_checked) ==
    CASE provider = "google" -> verify_google_token(token)
      [] provider = "apple" -> verify_apple_token(token, keys_fetched, claims_checked)
      [] provider = "facebook" -> verify_facebook_token(token)
      [] OTHER -> FALSE

\* the dict the verifiers return
user_info(token) == [provider |-> token.provider, sub |-> token.sub, email |-> token.email]

capitalize(provider) ==
    CASE provider = "google" -> "Google"
      [] provider = "apple" -> "Apple"
      [] provider = "facebook" -> "Facebook"
      [] OTHER -> provider

\* select(OAuthAccount).where(provider == .., sub == ..): the rows
oauth_account_rows(accounts, provider, sub) ==
    {i \in 1..Len(accounts) : accounts[i].provider = provider /\ accounts[i].sub = sub}

\* the call returns or raises; the route's answer reaches the client
Returns(q, resp) == [q EXCEPT !.pc = "done", !.resp = resp]

\* SessionManager.create_session, set_cookie and the body of the answer
\* (routers/auth.py 138-151)
LoggedIn(r, q, user_id, email) ==
    /\ SessionCreated(user_id, email)
    /\ reqs' = [reqs EXCEPT ![r] =
          Returns(q, LoginResponse("Login with " \o q.social.provider \o " successful",
                                   email, sid_counter + 1))]

\* logins under way
PendingSocial == Cardinality({r \in Tasks : reqs[r].pc \notin {"idle", "done"}})

SocialTokens ==
    {Token("google", "g-1", "a@x.com", TRUE, TRUE, TRUE, TRUE),
     Token("google", "g-2", "a@x.com", TRUE, TRUE, TRUE, TRUE),
     Token("google", "g-1", "a@x.com", FALSE, TRUE, TRUE, TRUE),
     Token("google", "g-1", "a@x.com", TRUE, FALSE, TRUE, TRUE),
     Token("apple", "ap-1", "b@x.com", TRUE, TRUE, TRUE, TRUE),
     Token("apple", "ap-1", "b@x.com", FALSE, TRUE, TRUE, TRUE),
     Token("apple", "ap-1", "b@x.com", TRUE, FALSE, FALSE, TRUE),
     Token("apple", "ap-1", "b@x.com", TRUE, TRUE, TRUE, FALSE),
     Token("facebook", "fb-1", None, TRUE, TRUE, TRUE, TRUE),
     Token("facebook", "fb-1", "a@x.com", TRUE, FALSE, TRUE, TRUE)}

\* POST /auth/google, /auth/apple or /auth/facebook reaches its handler
SocialLogin(r) ==
    /\ reqs[r].pc = "idle"
    /\ sid_counter + PendingSocial < MaxLogins
    /\ \E token \in SocialTokens :
          reqs' = [reqs EXCEPT ![r] =
             [IdleRequest EXCEPT
                 !.pc = "verify", !.method = "POST",
                 !.path = "/auth/" \o token.provider, !.token = token,
                 !.known_on_arrival =
                     oauth_account_rows(oauth_accounts, token.provider, token.sub) # {}]]
    /\ UNCHANGED <<size_metrics, timeout_metrics>> /\ Others

\* process_social_login up to the first await: the provider's verifier
VerifyToken(r) ==
    /\ reqs[r].pc = "verify"
    /\ \E keys_fetched \in BOOLEAN, claims_checked \in BOOLEAN :
          LET q == reqs[r]
              provider == q.token.provider
          IN  reqs' = [reqs EXCEPT ![r] =
                 IF verify_token(provider, q.token, keys_fetched, claims_checked)
                 THEN [q EXCEPT !.pc = "select_account", !.social = user_info(q.token)]
                 ELSE Returns(q, HTTPException(400,
                         "Invalid " \o capitalize(provider) \o " Token"))]
    /\ UNCHANGED <<size_metrics, timeout_metrics>> /\ Others

\* step 1: the account of (provider, sub).  scalar_one_or_none raises
\* MultipleResultsFound on two rows, which process_social_login wraps into
\* a 400; with one row the user is loaded and returned.
SelectAccount(r) ==
    /\ reqs[r].pc = "select_account"
    /\ LET q == reqs[r]
           rows == oauth_account_rows(oauth_accounts, q.social.provider, q.social.sub)
           oauth_account == CHOOSE i \in rows : TRUE
           user_id == oauth_accounts[oauth_account].user_id
       IN  IF Cardinality(rows) > 1
           THEN /\ reqs' = [reqs EXCEPT ![r] = Returns(q, HTTPException(400,
                      "Multiple rows were found when one or none was required"))]
                /\ UNCHANGED <<sessions, sid_counter, history>>
           ELSE IF rows # {}
           THEN LoggedIn(r, [q EXCEPT !.found_user = user_id], user_id, users[user_id].email)
           ELSE /\ reqs' = [reqs EXCEPT ![r] =
                      IF q.social.email # None THEN [q EXCEPT !.pc = "select_email"]
                      ELSE Returns(q, HTTPException(400,
                              "Email not provided by social provider"))]
                /\ UNCHANGED <<sessions, sid_counter, history>>
    /\ UNCHANGED <<users, oauth_accounts>> /\ HandlerOthers

\* step 2: the user who has the e-mail address
SelectUserByEmail(r) ==
    /\ reqs[r].pc = "select_email"
    /\ LET q == reqs[r]
           existing_user == user_by_email(users, q.social.email)
       IN  reqs' = [reqs EXCEPT ![r] =
              IF existing_user # 0
              THEN [q EXCEPT !.pc = "link", !.found_user = existing_user]
              ELSE [q EXCEPT !.pc = "create"]]
    /\ UNCHANGED <<size_metrics, timeout_metrics>> /\ Others

OAuthAccount(user_id, id) ==
    [user_id |-> user_id, provider |-> id.provider, sub |-> id.sub, email |-> id.email]

\* the link overwriting the user's password hash
LinkAccount_resetting_password(r) ==
    /\ reqs[r].pc = "link"
    /\ LET q == reqs[r] IN
       /\ oauth_accounts' = Append(oauth_accounts, OAuthAccount(q.found_user, q.social))
       /\ users' = [users EXCEPT ![q.found_user].password_hash = NoHash]
       /\ LoggedIn(r, [q EXCEPT !.rows.oauth_accounts = @ + 1], q.found_user,
                   users[q.found_user].email)
    /\ HandlerOthers

\* step 2, lines 182-188: the account is linked to the existing user and
\* committed
LinkAccount(r) ==
    /\ reqs[r].pc = "link"
    /\ LET q == reqs[r] IN
       /\ oauth_accounts' = Append(oauth_accounts, OAuthAccount(q.found_user, q.social))
       /\ LoggedIn(r, [q EXCEPT !.rows.oauth_accounts = @ + 1], q.found_user,
                   users[q.found_user].email)
    /\ UNCHANGED users /\ HandlerOthers

\* step 3: the user and the account are inserted and committed; the unique
\* index on users.email raises IntegrityError
CreateUser(r) ==
    /\ reqs[r].pc = "create"
    /\ LET q == reqs[r] IN
       IF user_by_email(users, q.social.email) # 0
       THEN /\ reqs' = [reqs EXCEPT ![r] =
                  Returns(q, HTTPException(400, "User creation failed"))]
            /\ UNCHANGED <<users, oauth_accounts, sessions, sid_counter, history>>
       ELSE /\ users' = Append(users, [email |-> q.social.email, password_hash |-> NoHash])
            /\ oauth_accounts' = Append(oauth_accounts,
                                        OAuthAccount(Len(users) + 1, q.social))
            /\ LoggedIn(r, [q EXCEPT !.rows = [users |-> 1, oauth_accounts |-> 1],
                                     !.found_user = Len(users) + 1],
                        Len(users) + 1, q.social.email)
    /\ HandlerOthers

\* the text of an exception the database driver raises
InternalErrors == {"connection refused", "relation oauth_accounts does not exist"}

\* an await of get_or_create_user_via_social raises an exception that is
\* neither HTTPException nor IntegrityError; process_social_login answers
\* HTTPException(status_code=400, detail=str(e)) (routers/auth.py 132-136)
StoreRaises(r) ==
    /\ reqs[r].pc \in {"select_account", "select_email", "link", "create"}
    /\ \E e \in InternalErrors :
          reqs' = [reqs EXCEPT ![r] =
             Returns([@ EXCEPT !.raised = e], HTTPException(400, e))]
    /\ UNCHANGED <<size_metrics, timeout_metrics>> /\ Others

NextSocial ==
    \E r \in Tasks :
        \/ SocialLogin(r)
        \/ VerifyToken(r)
        \/ SelectAccount(r)
        \/ SelectUserByEmail(r)
        \/ LinkAccount(r)
        \/ CreateUser(r)
        \/ StoreRaises(r)
        \/ Complete(r)

SpecSocial == Init /\ [][NextSocial]_vars

\* one login at a time
NextSocialSerial ==
    \E r \in FlowTasks :
        \/ SocialLogin(r)
        \/ VerifyToken(r)
        \/ SelectAccount(r)
        \/ SelectUserByEmail(r)
        \/ LinkAccount(r)
        \/ CreateUser(r)
        \/ StoreRaises(r)
        \/ Complete(r)

SpecSocialSerial == Init /\ [][NextSocialSerial]_vars

----------------------------------------------------------------------------
(* The counters of the two guards under concurrent requests.  The guards   *)
(* are coroutines of one event loop: between two awaits that suspend,      *)
(* nothing else runs.  `if self.metrics_lock is None: self.metrics_lock =  *)
(* asyncio.Lock()` has no await, and update_metrics takes a lock that is   *)
(* never held across a suspension, so each guard's decision, its           *)
(* update_metrics and the building of its response are one step.           *)

MaxMetered == 3

MeteredRequests ==
    {[path |-> "/", body |-> NoBody, content_length |-> NoContentLength],
     [path |-> "/", body |-> NoBody, content_length |-> ContentLength(MAX_UPLOAD_SIZE + 1)],
     [path |-> "/", body |-> JsonBody(JList(<<>>)), content_length |-> NoContentLength],
     [path |-> "/upload/large", body |-> JsonBody(JList(<<>>)),
      content_length |-> ContentLength(MAX_UPLOAD_SIZE + 1)]}

Unanswered == Cardinality({r \in Tasks : reqs[r].pc # "idle"})

ReceiveMetered(r) ==
    /\ reqs[r].pc = "idle"
    /\ history.answered.requests + Unanswered < MaxMetered
    /\ \E m \in MeteredRequests :
          reqs' = [reqs EXCEPT ![r] =
                     NewRequest(IF m.body = NoBody THEN "GET" ELSE "POST", m.path,
                                "localhost", None, None, 0, m.content_length,
                                m.body # NoBody, m.body, <<>>, NoCredentials)]
    /\ UNCHANGED <<size_metrics, timeout_metrics>> /\ Others

\* the client has its response, which is counted by the guard that built it
Answered413(resp) == resp.status = 413 /\ resp.origin = "RequestSizeLimitMiddleware"
Answered504(resp) == resp.status = 504 /\ resp.origin = "TimeoutMiddleware"

CompleteMetered(r) ==
    /\ reqs[r].pc = "done"
    /\ reqs' = [reqs EXCEPT ![r] = IdleRequest]
    /\ history' = [history EXCEPT
          !.answered = [rejected |-> @.rejected + (IF Answered413(reqs[r].resp) THEN 1 ELSE 0),
                        timed_out |-> @.timed_out + (IF Answered504(reqs[r].resp) THEN 1 ELSE 0),
                        requests |-> @.requests + 1]]
    /\ UNCHANGED <<users, oauth_accounts, sessions, revocations, sid_counter, now, settings,
                   size_metrics, timeout_metrics>>

NextMetrics ==
    \E r \in Tasks :
        \/ ReceiveMetered(r)
        \/ RequestLoggingMiddleware(r)
        \/ RequestIDMiddleware(r)
        \/ UserContextMiddleware(r)
        \/ RequestValidationMiddleware(r)
        \/ TimeoutMiddleware(r)
        \/ RequestSizeLimitMiddleware(r)
        \/ SecurityHeadersMiddleware(r)
        \/ GZipMiddleware(r)
        \/ CORSMiddleware(r)
        \/ TrustedHostMiddleware(r)
        \/ root(r)
        \/ TimeoutExpires(r)
        \/ DownstreamRaises(r)
        \/ Respond(r)
        \/ CompleteMetered(r)

SpecMetrics == Init /\ [][NextMetrics]_vars

----------------------------------------------------------------------------
(* Concurrent registrations.  create_user adds the row and commits; the    *)
(* commit is the step at which the unique index on users.email decides.    *)

NextRegister ==
    \E r \in Tasks :
        \/ PostRegister(r)
        \/ RequestLoggingMiddleware(r)
        \/ RequestIDMiddleware(r)
        \/ UserContextMiddleware(r)
        \/ RequestValidationMiddleware(r)
        \/ TimeoutMiddleware(r)
        \/ RequestSizeLimitMiddleware(r)
        \/ SecurityHeadersMiddleware(r)
        \/ GZipMiddleware(r)
        \/ CORSMiddleware(r)
        \/ TrustedHostMiddleware(r)
        \/ register(r)
        \/ Respond(r)
        \/ Complete(r)

SpecRegister == Init /\ [][NextRegister]_vars

----------------------------------------------------------------------------
(* Issuing and decoding tokens.  scripts/generate_token.py calls            *)
(* create_access_token(data={"sub": username}, expires_delta=24h); the      *)
(* function is not in src, so issuing follows the token service of the      *)
(* specification: the claims are copied, a fresh jti and the expiry are     *)
(* added, and the token is signed with the server secret.                   *)

MaxIssued == 2
Subjects == {"u1", "test_user"}
\* timedelta(hours=24), and half of it
ExpiresDeltas == {86400, 43200}

\* the identifier of the n-th token (a fresh random value)
fresh_jti(n) == "jti-" \o ToString(n)

create_access_token(data, expires_delta, jti, t) ==
    [wellformed |-> TRUE, key |-> "SECRET_KEY",
     claims |-> [sub |-> data.sub, exp |-> t + expires_delta, jti |-> jti]]

Issue(sub, expires_delta) ==
    /\ Len(history.issued) < MaxIssued
    /\ history' = [history EXCEPT !.issued = Append(@,
          [content |-> create_access_token([sub |-> sub], expires_delta,
                                           fresh_jti(Len(history.issued) + 1), now),
           sub |-> sub, at |-> now])]
    /\ UNCHANGED <<reqs, users, oauth_accounts, sessions, revocations, sid_counter, now,
                   settings, size_metrics, timeout_metrics>>

\* the resolver's decode (middlewares/auth.py 45-47) of the n-th token
Decode(n) ==
    /\ n \in 1..Len(history.issued)
    /\ history' = [history EXCEPT !.decoded =
          [token |-> n, at |-> now,
           raised |-> jwt_decode_content(history.issued[n].content, now).raised,
           payload |-> jwt_decode_content(history.issued[n].content, now).payload]]
    /\ UNCHANGED <<reqs, users, oauth_accounts, sessions, revocations, sid_counter, now,
                   settings, size_metrics, timeout_metrics>>

NextToken ==
    \/ \E sub \in Subjects, expires_delta \in ExpiresDeltas : Issue(sub, expires_delta)
    \/ \E n \in 1..MaxIssued : Decode(n)
    \/ Tick

SpecToken == Init /\ [][NextToken]_vars

----------------------------------------------------------------------------
(* The resolver on requests with no token, a good one, an expired one or   *)
(* one without sub, and with no cookie, the cookie of a live session, of a  *)
(* session that expires or whose stored value is overwritten, of a session  *)
(* that never existed, and a session store that fails.                      *)

LookupCookies == {0, 1, 2}
LookupTokens == {None, "tok_u1", "tok_old", "tok_nosub"}

ReceiveCookie(r) ==
    /\ reqs[r].pc = "idle"
    /\ \E authorization \in LookupTokens, session_id \in LookupCookies :
          reqs' = [reqs EXCEPT ![r] =
                     NewRequest("GET", "/", "localhost", authorization, None, session_id,
                                NoContentLength, FALSE, NoBody, <<>>, NoCredentials)]
    /\ UNCHANGED <<size_metrics, timeout_metrics>> /\ Others

\* auth.py 85-105: redis raises (connection refused, timeout) inside
\* get_session; `except Exception` logs and passes
UserContextSessionRaises(r) ==
    /\ reqs[r].pc = "await_session"
    /\ reqs' = [reqs EXCEPT ![r] =
          call_next([@ EXCEPT !.session_lookups = @ + 1, !.raised = "ConnectionError"])]
    /\ UNCHANGED <<size_metrics, timeout_metrics>> /\ Others

NextLookup ==
    \/ \E r \in FlowTasks :
          \/ ReceiveCookie(r)
          \/ Pipeline(r)
          \/ UserContextSessionRaises(r)
          \/ root(r)
    \/ \E text \in StoredTexts : ExternalWrite(1, text)
    \/ Tick

SpecLookup == InitSignedIn /\ [][NextLookup]_vars

----------------------------------------------------------------------------
(* Registration, password login and federated login, one request at a time. *)

\* POST /auth/login while a session id can still be drawn
PostLoginForSession(r) ==
    /\ sid_counter + PendingSocial < MaxLogins
    /\ \E email \in Emails, password \in Passwords :
          Arrives(r, ClientRequest("POST", "/auth/login", 0,
                                   [email |-> email, password |-> password], NoIdentity))

NextLogin ==
    \E r \in FlowTasks :
        \/ PostRegister(r)
        \/ PostLoginForSession(r)
        \/ RequestLoggingMiddleware(r)
        \/ RequestIDMiddleware(r)
        \/ UserContextMiddleware(r)
        \/ RequestValidationMiddleware(r)
        \/ TimeoutMiddleware(r)
        \/ RequestSizeLimitMiddleware(r)
        \/ SecurityHeadersMiddleware(r)
        \/ GZipMiddleware(r)
        \/ CORSMiddleware(r)
        \/ TrustedHostMiddleware(r)
        \/ register(r)
        \/ login_cookie(r)
        \/ Respond(r)
        \/ SocialLogin(r)
        \/ VerifyToken(r)
        \/ SelectAccount(r)
        \/ SelectUserByEmail(r)
        \/ LinkAccount(r)
        \/ CreateUser(r)
        \/ StoreRaises(r)
        \/ Complete(r)

SpecLogin == Init /\ [][NextLogin]_vars

----------------------------------------------------------------------------
(* Federated accounts *)

\* C27: in every reachable state of the user store there is at most one
\* oauth_accounts row for a (provider, sub) pair, and the row links to a
\* user that exists, also after concurrent first logins with the pair
C27_OneAccountPerSubject ==
    /\ \A i, j \in 1..Len(oauth_accounts) :
          (/\ oauth_accounts[i].provider = oauth_accounts[j].provider
           /\ oauth_accounts[i].sub = oauth_accounts[j].sub) => i = j
    /\ \A i \in 1..Len(oauth_accounts) : oauth_accounts[i].user_id \in 1..Len(users)

\* the oauth_accounts rows of a user with a provider
AccountsOf(user_id, provider) ==
    {i \in 1..Len(oauth_accounts) :
        oauth_accounts[i].user_id = user_id /\ oauth_accounts[i].provider = provider}

\* C28: in every reachable state a user owns at most one oauth_accounts row
\* per provider, after any sequence of federated logins
C28_OneAccountPerProvider ==
    \A user_id \in 1..Len(users), provider \in {"google", "apple", "facebook"} :
        Cardinality(AccountsOf(user_id, provider)) <= 1

\* the first oauth_accounts row of a (provider, sub) is committed while no
\* user has its e-mail: one user without password hash and that one row
FirstLoginCreatesOnePair ==
    LET account == oauth_accounts'[Len(oauth_accounts')] IN
    (/\ Len(oauth_accounts') > Len(oauth_accounts)
     /\ oauth_account_rows(oauth_accounts, account.provider, account.sub) = {}
     /\ user_by_email(users, account.email) = 0)
    => /\ Len(oauth_accounts') = Len(oauth_accounts) + 1
       /\ users' = Append(users, [email |-> account.email, password_hash |-> NoHash])
       /\ account.user_id = Len(users')

\* the user of the first oauth_accounts row of (provider, sub)
ProvisionedUser(provider, sub) ==
    LET rows == oauth_account_rows(oauth_accounts, provider, sub)
    IN  oauth_accounts[CHOOSE i \in rows : \A j \in rows : i <= j].user_id

\* a login that arrived when (provider, sub) had an account, and whose
\* credential the provider accepted, has returned
LaterLoginReturned(r) ==
    /\ reqs[r].pc = "done"
    /\ reqs[r].known_on_arrival
    /\ reqs[r].social # NoIdentity

LaterLoginReturnsSameUser ==
    \A r \in Tasks :
        LaterLoginReturned(r) =>
            /\ reqs[r].resp.status = 200
            /\ reqs[r].found_user = ProvisionedUser(reqs[r].social.provider, reqs[r].social.sub)
            /\ reqs[r].resp.email = users[reqs[r].found_user].email
            /\ reqs[r].rows = NoRows

\* C29: provisioning is idempotent: the first login of an unknown
\* (provider, sub) with an unknown e-mail creates exactly one user without
\* password hash and one account, and every later login with the same
\* (provider, sub) returns that user and creates no row
C29_ProvisioningIdempotent ==
    /\ [][FirstLoginCreatesOnePair]_vars
    /\ []LaterLoginReturnsSameUser

\* the provider signed the credential, for this application
Genuine(token) == token.signature_ok /\ token.aud_ok /\ token.iss_ok

\* the identity of the credential has been taken over, or the login has
\* been answered with a session
Trusted(q) ==
    /\ q.token # NoToken
    /\ \/ q.social # NoIdentity
       \/ q.found_user # 0
       \/ q.resp.status = 200
       \/ q.resp.set_cookie # 0

\* C30: for google, apple and facebook alike, a credential whose signature
\* does not verify, or whose audience or issuer does not match, fails
\* verification: no identity is taken from it, no user resolved and no
\* session created
C30_OnlyVerifiedCredentials ==
    \A r \in Tasks : Trusted(reqs[r]) => Genuine(reqs[r].token)

----------------------------------------------------------------------------
(* Errors *)

\* an unexpected error ended the request
FailedInternally(q) == q.pc = "done" /\ q.raised \in InternalErrors

\* C31: no response carries the text of an internal exception: an
\* unexpected error yields the generic 500, and the response is the same
\* for any two internal error messages
C31_NoInternalErrorText ==
    /\ \A r \in Tasks :
          FailedInternally(reqs[r]) =>
              /\ reqs[r].resp.status = 500
              /\ reqs[r].resp.body = generic_exception_handler(reqs[r].raised).body
    /\ \A r1, r2 \in Tasks :
          (FailedInternally(reqs[r1]) /\ FailedInternally(reqs[r2]))
              => reqs[r1].resp = reqs[r2].resp

----------------------------------------------------------------------------
(* Counters *)

RECURSIVE SumOver(_, _)
SumOver(f, keys) ==
    IF keys = {} THEN 0
    ELSE LET k == CHOOSE k \in keys : TRUE IN f[k] + SumOver(f, keys \ {k})

Sum(f) == SumOver(f, DOMAIN f)

AllCompleted == \A r \in Tasks : reqs[r].pc = "idle"

\* C32: under any interleaving, once all requests have completed,
\* rejected_total is the number of 413 answers of the size guard and the sum
\* of rejected_per_endpoint, and total_timeouts is the number of 504 answers
\* of the timeout guard and the sum of timeouts_per_endpoint and of
\* timeouts_per_method
C32_CountersExact ==
    AllCompleted =>
        /\ size_metrics.rejected_total = history.answered.rejected
        /\ size_metrics.rejected_total = Sum(size_metrics.rejected_per_endpoint)
        /\ timeout_metrics.total_timeouts = history.answered.timed_out
        /\ timeout_metrics.total_timeouts = Sum(timeout_metrics.timeouts_per_endpoint)
        /\ timeout_metrics.total_timeouts = Sum(timeout_metrics.timeouts_per_method)

\* three requests, two of them to one path, rejected or timed out
C32_Witness ==
    /\ AllCompleted
    /\ history.answered.rejected = 2
    /\ history.answered.timed_out = 1
    /\ "/upload/large" \in DOMAIN size_metrics.rejected_per_endpoint
    /\ size_metrics.rejected_per_endpoint["/upload/large"] = 2
    /\ "POST" \in DOMAIN timeout_metrics.timeouts_per_method

----------------------------------------------------------------------------
(* The session store: reads and frame conditions *)

\* C33: get_session returns absence, and raises no error, when the value
\* stored under the session key is malformed
C33_MalformedIsAbsence ==
    history.got.malformed => (~history.got.found /\ history.got.raised = None)

\* one direct call of refresh_session or delete_session is this step
Calls(op) == history'.called # history.called /\ history'.called.op = op

Live(store, session_id) == session_id \in DOMAIN store

\* refresh_session(id): only the time-to-live of id's record changes, no
\* record appears, and False is reported for an id without record
RefreshFrame ==
    LET id == history'.called.session_id IN
    Calls("refresh_session") =>
        /\ DOMAIN sessions' = DOMAIN sessions
        /\ \A k \in DOMAIN sessions :
              /\ sessions'[k].value = sessions[k].value
              /\ k # id => sessions'[k] = sessions[k]
        /\ history'.called.returned <=> Live(sessions, id)
        /\ Live(sessions, id) => sessions'[id].expires_at = now + session_ttl

\* delete_session(id): only id's record goes, and nothing changes when
\* there is none
DeleteFrame ==
    LET id == history'.called.session_id IN
    Calls("delete_session") =>
        /\ DOMAIN sessions' = DOMAIN sessions \ {id}
        /\ \A k \in DOMAIN sessions' : sessions'[k] = sessions[k]
        /\ ~Live(sessions, id) => sessions' = sessions

\* C34: refresh_session(id) changes only the time-to-live of id's record,
\* never its content, creates no record for a missing, deleted or expired
\* id (it reports false) and leaves every other session untouched;
\* delete_session(id) removes only id's record and leaves the store
\* unchanged when id has none
C34_RefreshAndDeleteFrame == [][RefreshFrame /\ DeleteFrame]_vars

\* a refresh has moved the expiry of the first session while the second
\* session is in the store
C34_Witness ==
    /\ history.called = [op |-> "refresh_session", session_id |-> 1, returned |-> TRUE,
                         turn |-> TRUE]
    /\ DOMAIN sessions = {1, 2}
    /\ sessions[1].expires_at > sessions[2].expires_at

----------------------------------------------------------------------------
(* Registration *)

EmailsUnique ==
    \A i, j \in 1..Len(users) : users[i].email = users[j].email => i = j

\* the handler of POST /auth/register has answered r
Registered(q) ==
    q.path = "/auth/register" /\ q.pc \in {"respond", "done"} /\ q.resp.origin = "handler"

\* this step is create_user for the request of r
Registers(r) == ~Registered(reqs[r]) /\ Registered(reqs'[r])

RegistrationDecides ==
    \A r \in Tasks :
        Registers(r) =>
            IF user_by_email(users, reqs[r].credentials.email) # 0
            THEN /\ reqs'[r].resp.status = 400
                 /\ reqs'[r].resp.body = "Email already registered"
                 /\ users' = users
            ELSE /\ reqs'[r].resp.status = 200
                 /\ Len(users') = Len(users) + 1
                 /\ users'[Len(users')].email = reqs[r].credentials.email

\* two registrations of an e-mail address that was free when each arrived
Competing(q1, q2) ==
    /\ Registered(q1) /\ Registered(q2)
    /\ q1.credentials.email = q2.credentials.email
    /\ ~q1.known_on_arrival /\ ~q2.known_on_arrival

OneOfTwoSucceeds ==
    Competing(reqs["r1"], reqs["r2"]) =>
        {reqs["r1"].resp.status, reqs["r2"].resp.status} = {200, 400}

\* C35: user e-mail addresses are unique in every reachable state:
\* registering a registered address fails with 400 "Email already
\* registered" and leaves the user store unchanged, and of two concurrent
\* registrations of one address exactly one succeeds
C35_EmailsUnique ==
    /\ [](EmailsUnique /\ OneOfTwoSucceeds)
    /\ [][RegistrationDecides]_vars

\* both requests were under way for one free address; one was answered 200,
\* the other 400
C35_Witness ==
    /\ Competing(reqs["r1"], reqs["r2"])
    /\ reqs["r1"].resp.status = 400
    /\ reqs["r2"].resp.status = 200
    /\ Len(users) = 1

----------------------------------------------------------------------------
(* Tokens *)

\* the last decode was of a token issued at that very moment
DecodedAtOnce ==
    /\ history.decoded.token # 0
    /\ history.decoded.at = history.issued[history.decoded.token].at

----------------------------------------------------------------------------
(* The resolver without token *)

\* the resolver finishes with the request of r in this step
LeavesResolver(r) ==
    /\ reqs[r].pc \in {"dispatch", "await_session"}
    /\ StageOf(reqs[r]) = "UserContextMiddleware"
    /\ reqs'[r] # reqs[r]
    /\ reqs'[r].pc # "await_session"

\* the store holds a decodable record with a user id under the cookie of q
SessionUsable(q) ==
    /\ q.session_id \in DOMAIN sessions
    /\ now < sessions[q.session_id].expires_at
    /\ "json" \in DOMAIN sessions[q.session_id].value
    /\ record_user_id(sessions[q.session_id].value.json) # 0

Forwards(r) ==
    /\ reqs'[r].pc \in {"dispatch", "handler"}
    /\ reqs'[r].depth = reqs[r].depth + 1

Unauthenticated(q) ==
    /\ ~q.state.authenticated
    /\ q.state.user_id = None
    /\ q.state.user = InitialState.user

NoTokenNeverRejected ==
    \A r \in Tasks :
        (LeavesResolver(r) /\ ~Presented(extract_token(reqs[r]))) =>
            /\ Forwards(r)
            /\ (~SessionUsable(reqs[r]) \/ reqs'[r].raised # None) => Unauthenticated(reqs'[r])

\* C37: when no token is presented the resolver never rejects: with a
\* missing, unknown or expired session_id, or when the lookup in the session
\* store raises, the request goes to the next stage unauthenticated
C37_NoTokenNeverRejected == [][NoTokenNeverRejected]_vars

\* the request carried the cookie of the session whose value is malformed,
\* the lookup was made, and the handler has the request unauthenticated
C37_Witness ==
    \E r \in Tasks :
        /\ reqs[r].pc = "handler"
        /\ reqs[r].session_id = 1
        /\ reqs[r].session_lookups = 1
        /\ 1 \in DOMAIN sessions
        /\ json_loads_raises(sessions[1].value) /\ ~falsy(sessions[1].value)
        /\ Unauthenticated(reqs[r])

----------------------------------------------------------------------------
(* The identity the resolver hands on *)

\* the identity of q is the sub of its token, which decodes at t
FromDecodedToken(q, identity, t) ==
    /\ Presented(extract_token(q))
    /\ jwt_decode(extract_token(q), t).raised = None
    /\ identity.user_id = jwt_decode(extract_token(q), t).payload.sub
    /\ identity.user.username = identity.user_id

\* the identity of q is the user_id of the record stored under its cookie
FromSessionRecord(q, identity) ==
    /\ q.session_id \in DOMAIN sessions
    /\ now < sessions[q.session_id].expires_at
    /\ "json" \in DOMAIN sessions[q.session_id].value
    /\ identity.user.id = record_user_id(sessions[q.session_id].value.json)
    /\ identity.user.id # 0
    /\ identity.user_id = ToString(identity.user.id)

HandsOnConsistentIdentity ==
    \A r \in Tasks :
        (LeavesResolver(r) /\ Forwards(r)) =>
            LET identity == reqs'[r].state IN
            /\ identity.authenticated <=>
                  (identity.user_id # None /\ identity.user # InitialState.user)
            /\ ~identity.authenticated => Unauthenticated(reqs'[r])
            /\ identity.authenticated =>
                  \/ FromDecodedToken(reqs[r], identity, now)
                  \/ FromSessionRecord(reqs[r], identity)

----------------------------------------------------------------------------
(* Sessions and logins *)

SocialPaths == {"/auth/google", "/auth/apple", "/auth/facebook"}
LoginPaths == {"/auth/login"} \cup SocialPaths

\* the request of r, a login, gets its answer in this step
LoginAnswered(r) ==
    /\ reqs[r].path \in LoginPaths
    /\ reqs[r].resp = NoResponse
    /\ reqs'[r].resp # NoResponse

\* the credential of q passes its check, and user is whom it names
VerifiedAs(q, user) ==
    IF q.path = "/auth/login"
    THEN user # 0 /\ user = authenticate_user(users, q.credentials.email, q.credentials.password)
    ELSE /\ q.social = user_info(q.token)
         /\ \E keys_fetched \in BOOLEAN, claims_checked \in BOOLEAN :
               verify_token(q.token.provider, q.token, keys_fetched, claims_checked)
         /\ user \in 1..Len(users')
         /\ \E i \in 1..Len(oauth_accounts') :
               /\ oauth_accounts'[i].provider = q.token.provider
               /\ oauth_accounts'[i].sub = q.token.sub
               /\ oauth_accounts'[i].user_id = user

\* this step adds exactly the session s, holding the id and e-mail of user
OneSessionFor(s, user) ==
    /\ sid_counter' = sid_counter + 1
    /\ s = sid_counter'
    /\ s \notin DOMAIN sessions
    /\ DOMAIN sessions' = DOMAIN sessions \cup {s}
    /\ \A k \in DOMAIN sessions : sessions'[k] = sessions[k]
    /\ ~json_loads_raises(sessions'[s].value)
    /\ json_loads(sessions'[s].value) = [user_id |-> user, email |-> users'[user].email]

SessionOnlyForVerifiedLogin ==
    /\ (sessions' # sessions \/ sid_counter' # sid_counter) =>
          \E r \in Tasks : LoginAnswered(r) /\ reqs'[r].resp.status = 200
    /\ \A r \in Tasks :
          LoginAnswered(r) =>
             IF reqs'[r].resp.status = 200
             THEN \E user \in 1..Len(users') :
                     /\ VerifiedAs(reqs[r], user)
                     /\ OneSessionFor(reqs'[r].resp.set_cookie, user)
                     /\ reqs'[r].resp.email = users'[user].email
             ELSE /\ sessions' = sessions
                  /\ sid_counter' = sid_counter
                  /\ reqs'[r].resp.set_cookie = 0

\* the client gets the cookie the handler set, and only that
CookieReachesClient ==
    \A r \in Tasks :
        (reqs[r].pc = "done" /\ reqs[r].path \in LoginPaths) =>
            IF reqs[r].resp.status = 200
            THEN reqs[r].resp.set_cookie \in DOMAIN sessions
            ELSE reqs[r].resp.set_cookie = 0

----------------------------------------------------------------------------
(* Linking by e-mail *)

\* no account row has the identity of q
UnknownPair(q) == oauth_account_rows(oauth_accounts, q.social.provider, q.social.sub) = {}

\* get_or_create_user_via_social takes a step for r without raising
ResolvesUser(r) ==
    /\ reqs[r].pc \in {"select_account", "select_email", "link", "create"}
    /\ reqs'[r] # reqs[r]
    /\ reqs'[r].raised = None

LinksToExistingUser ==
    \A r \in Tasks :
        LET q == reqs[r]
            existing_user == user_by_email(users, q.social.email)
        IN  (ResolvesUser(r) /\ UnknownPair(q)) =>
               IF q.social.email = None
               THEN /\ reqs'[r].pc = "done" /\ reqs'[r].resp.status = 400
                    /\ users' = users /\ oauth_accounts' = oauth_accounts
                    /\ sessions' = sessions
               ELSE existing_user # 0 =>
                    /\ users' = users
                    /\ reqs'[r].pc \in {"select_email", "link", "done"}
                    /\ reqs'[r].pc # "done" => oauth_accounts' = oauth_accounts
                    /\ reqs'[r].pc = "done" =>
                          /\ q.pc = "link"
                          /\ oauth_accounts' =
                                Append(oauth_accounts, OAuthAccount(existing_user, q.social))
                          /\ reqs'[r].resp.status = 200
                          /\ reqs'[r].resp.email = q.social.email
                          /\ reqs'[r].found_user = existing_user

\* C40: a federated login whose (provider, subject) is unknown and whose
\* e-mail is that of an existing user links a new account to that user and
\* returns it, creating no user and leaving the password hash as it was;
\* with an unknown (provider, subject) and no e-mail it fails with 400 and
\* creates no row
C40_LinkByEmail == [][LinksToExistingUser]_vars

\* a registered user with a password got an account linked by a federated
\* login and kept the hash
C40_Witness ==
    \E r \in Tasks :
        /\ reqs[r].pc = "done" /\ reqs[r].path \in SocialPaths
        /\ ~reqs[r].known_on_arrival
        /\ reqs[r].rows = [users |-> 0, oauth_accounts |-> 1]
        /\ reqs[r].resp.status = 200
        /\ users[reqs[r].found_user].email = reqs[r].social.email
        /\ users[reqs[r].found_user].password_hash = get_password_hash("secret123")

====
